---- MODULE Spec2Model ----
(***************************************************************************)
(* A model of the red-pandas backend: the static script validator, the    *)
(* conversation manager over the session store, the script executor with  *)
(* its two-worker pool, and the analyze request handler.                   *)
(***************************************************************************)
EXTENDS Integers, Sequences, FiniteSets, TLC

(***************************************************************************)
(* Settings (config.py)                                                    *)
(***************************************************************************)
MAX_CONVERSATION_HISTORY == 10
CONTEXT_LOOKBACK == 3
MAX_EXECUTION_TIMEOUT == 5
MAX_CODE_LENGTH == 10000
MAX_WORKERS == 2

FORBIDDEN_IMPORTS ==
    {"os", "sys", "subprocess", "socket", "requests", "urllib", "http",
     "ftplib", "telnetlib", "ssl", "importlib", "pkgutil", "inspect",
     "ctypes", "shutil", "glob", "pathlib", "tempfile"}

FORBIDDEN_BUILTINS ==
    {"eval", "exec", "compile", "__import__", "open", "input", "help",
     "globals", "locals", "vars", "dir", "getattr", "setattr", "delattr",
     "breakpoint", "memoryview", "bytearray"}

\* The absent value (Python None) of a string-valued field.
None == "None"

(***************************************************************************)
(* Scripts.  A script is its text length, whether the text is blank,       *)
(* whether it parses, and (when it parses) its syntax tree: a sequence of  *)
(* statements.  A dotted module name "a.b" is the sequence <<"a", "b">>.   *)
(***************************************************************************)
Name(id, ctx) == [e |-> "Name", id |-> id, ctx |-> ctx]
Constant == [e |-> "Constant"]
Call(func, args) == [e |-> "Call", func |-> func, args |-> args]
Attribute(value, attr) == [e |-> "Attribute", value |-> value, attr |-> attr]
TupleExpr(elts) == [e |-> "Tuple", elts |-> elts]

Import(names) == [k |-> "Import", names |-> names]
\* module = <<>> is "from . import x" (node.module is None)
ImportFrom(module) == [k |-> "ImportFrom", module |-> module]
Assign(targets, value) == [k |-> "Assign", targets |-> targets, value |-> value]
AnnAssign(target, hasValue) ==
    [k |-> "AnnAssign", target |-> target, hasValue |-> hasValue]
AugAssign(target) == [k |-> "AugAssign", target |-> target]
ExprStmt(value) == [k |-> "Expr", value |-> value]
FunctionDef(body) == [k |-> "FunctionDef", body |-> body]

\* The attribute names of the model's scripts that start and end with "__".
DunderAttrs == {"__globals__", "__class__", "__subclasses__"}
SafeDunders ==
    {"__name__", "__doc__", "__class__", "__dict__", "__str__", "__repr__",
     "__len__", "__getitem__"}

NoMessage == [text |-> None, arg |-> <<>>]
Msg(text, arg) == [text |-> text, arg |-> arg]

\* alias.name.split('.')[0]
FirstSegment(dotted) == dotted[1]

RECURSIVE VisitExpr(_)
RECURSIVE VisitExprs(_)
\* ASTSecurityValidator on an expression: the first SecurityError raised in
\* visiting order, or NoMessage.
VisitExprs(es) ==
    IF es = <<>> THEN NoMessage
    ELSE LET m == VisitExpr(Head(es))
         IN  IF m # NoMessage THEN m ELSE VisitExprs(Tail(es))

VisitExpr(x) ==
    CASE x.e = "Name" ->
           IF x.ctx = "Load" /\ x.id \in FORBIDDEN_BUILTINS
           THEN Msg("Forbidden built-in function: ", <<x.id>>)
           ELSE NoMessage
      [] x.e = "Call" ->
           IF x.func.e = "Name"
              /\ x.func.id \in {"getattr", "setattr", "delattr", "hasattr"}
           THEN Msg("Forbidden function call: ", <<x.func.id>>)
           ELSE IF x.func.e = "Attribute" /\ x.func.attr \in {"eval", "query"}
           THEN Msg("Forbidden method call: ", <<x.func.attr>>)
           ELSE VisitExprs(<<x.func>> \o x.args)
      [] x.e = "Attribute" ->
           IF x.attr \in DunderAttrs /\ x.attr \notin SafeDunders
           THEN Msg("Forbidden dunder attribute: ", <<x.attr>>)
           ELSE VisitExpr(x.value)
      [] x.e = "Tuple" -> VisitExprs(x.elts)
      [] OTHER -> NoMessage

\* ImportIsForbidden without the split: the whole dotted name is looked up,
\* and a name of several segments is no member of the set.
ImportIsForbiddenWholeName(dotted) ==
    Len(dotted) = 1 /\ dotted[1] \in FORBIDDEN_IMPORTS

\* module_name = name.split('.')[0]; module_name in self.forbidden_imports
ImportIsForbidden(dotted) == FirstSegment(dotted) \in FORBIDDEN_IMPORTS

RECURSIVE VisitStmt(_)
RECURSIVE VisitBody(_)
VisitBody(body) ==
    IF body = <<>> THEN NoMessage
    ELSE LET m == VisitStmt(Head(body))
         IN  IF m # NoMessage THEN m ELSE VisitBody(Tail(body))

RECURSIVE VisitImport(_)
VisitImport(names) ==
    IF names = <<>> THEN NoMessage
    ELSE IF ImportIsForbidden(Head(names))
    THEN Msg("Forbidden import: ", Head(names))
    ELSE VisitImport(Tail(names))

VisitImportFrom(module) ==
    IF module # <<>> /\ ImportIsForbidden(module)
    THEN Msg("Forbidden import: from ", module)
    ELSE NoMessage

VisitStmt(s) ==
    CASE s.k = "Import" -> VisitImport(s.names)
      [] s.k = "ImportFrom" -> VisitImportFrom(s.module)
      [] s.k = "Assign" -> VisitExprs(s.targets \o <<s.value>>)
      [] s.k = "AnnAssign" ->
           VisitExprs(<<s.target>> \o (IF s.hasValue THEN <<Constant>> ELSE <<>>))
      [] s.k = "AugAssign" -> VisitExprs(<<s.target, Constant>>)
      [] s.k = "Expr" -> VisitExpr(s.value)
      [] s.k = "FunctionDef" -> VisitBody(s.body)
      [] OTHER -> NoMessage

IsResultName(t) == t.e = "Name" /\ t.id = "result"

RECURSIVE CheckResultAssignment(_)
\* CodeValidator._check_result_assignment over every node of the tree
CheckResultAssignment(body) ==
    IF body = <<>> THEN FALSE
    ELSE LET s == Head(body)
             here ==
               CASE s.k = "Assign" ->
                      \E i \in 1..Len(s.targets) : IsResultName(s.targets[i])
                 [] s.k = "AnnAssign" -> IsResultName(s.target)
                 [] s.k = "FunctionDef" -> CheckResultAssignment(s.body)
                 [] OTHER -> FALSE
         IN  here \/ CheckResultAssignment(Tail(body))

\* CodeValidator.validate_code: (is_valid, error_message)
validate_code(code) ==
    IF code.blank THEN [valid |-> FALSE, message |-> Msg("Empty code provided", <<>>)]
    ELSE IF code.chars > MAX_CODE_LENGTH
    THEN [valid |-> FALSE,
          message |-> Msg("Code exceeds maximum length of 10000 characters", <<>>)]
    ELSE IF ~code.parses
    THEN [valid |-> FALSE, message |-> Msg("Syntax error at line ", <<>>)]
    ELSE LET m == VisitBody(code.body)
         IN  IF m # NoMessage THEN [valid |-> FALSE, message |-> m]
             ELSE IF ~CheckResultAssignment(code.body)
             THEN [valid |-> FALSE,
                   message |-> Msg("Code must assign a value to variable 'result'", <<>>)]
             ELSE [valid |-> TRUE, message |-> NoMessage]

(***************************************************************************)
(* The scripts of the model                                                *)
(***************************************************************************)
MaxStmts == 2
MaxDepth == 1
SmallLength == 40

df == Name("df", "Load")
ResultTarget == Name("result", "Store")
OtherTarget == Name("x", "Store")

SimpleStmts ==
    { Import(<< <<"os">> >>),
      Import(<< <<"json">>, <<"os", "path">> >>),
      Import(<< <<"xml", "os">> >>),
      ImportFrom(<<"subprocess">>),
      ImportFrom(<<"os", "path">>),
      ImportFrom(<<>>),
      Assign(<<ResultTarget>>, Constant),
      Assign(<<OtherTarget>>, Constant),
      Assign(<<ResultTarget>>, Attribute(df, "__class__")),
      Assign(<<TupleExpr(<<ResultTarget, OtherTarget>>)>>, Constant),
      AnnAssign(ResultTarget, FALSE),
      AnnAssign(ResultTarget, TRUE),
      AugAssign(ResultTarget),
      ExprStmt(Name("eval", "Load")),
      ExprStmt(Call(Name("getattr", "Load"), <<df>>)),
      ExprStmt(Call(Attribute(df, "query"), <<Constant>>)),
      ExprStmt(Attribute(df, "__globals__")) }

RECURSIVE StmtsAtDepth(_)
StmtsAtDepth(d) ==
    IF d = 0 THEN SimpleStmts
    ELSE SimpleStmts \cup {FunctionDef(<<s>>) : s \in StmtsAtDepth(d - 1)}

Stmts == StmtsAtDepth(MaxDepth)

Bodies == UNION {[1..n -> Stmts] : n \in 1..MaxStmts}

ParsedScript(chars, body) ==
    [blank |-> FALSE, chars |-> chars, parses |-> TRUE, body |-> body]

ScriptSet ==
    {ParsedScript(SmallLength, b) : b \in Bodies}
    \cup {ParsedScript(MAX_CODE_LENGTH + 1, <<s>>) : s \in SimpleStmts}
    \cup {ParsedScript(MAX_CODE_LENGTH, <<s>>) : s \in SimpleStmts}
    \cup {[blank |-> TRUE, chars |-> c, parses |-> TRUE, body |-> <<>>] :
             c \in {0, SmallLength, MAX_CODE_LENGTH + 1}}
    \cup {[blank |-> FALSE, chars |-> c, parses |-> FALSE, body |-> <<>>] :
             c \in {SmallLength, MAX_CODE_LENGTH + 1}}

(***************************************************************************)
(* State                                                                   *)
(***************************************************************************)
VARIABLES
    script,     \* validator run: the script text handed to validate_code
    verdict,    \* validator run: what validate_code returned
    store,      \* db.sessions: session id -> document
    created,    \* the session ids uuid4 has produced so far
    clock,      \* datetime.now()
    appended,   \* per session, every interaction pushed since creation or clear
    ctxOut,     \* the last get_conversation_context call and its return value
    inflight,   \* insert_one and update_one calls awaited and not yet applied
    call,       \* execute_code_safely: call id -> the call's state
    future,     \* the future of each call's run_code work item
    queue,      \* the pool's work queue: submitted items no worker has taken
    running,    \* the calls whose script is executing in a pool worker
    req,        \* analyze_data: request id -> the request's state
    arg,        \* a call of one of the other operations: its arguments
    ret,        \* ... and what it returned
    sys,        \* the process's sys.stdout and sys.stderr bindings
    run,        \* run_code: call id -> its position, saved streams and buffers
    realOut     \* what the process's real standard output received, by writer

vars == <<script, verdict, store, created, clock, appended, ctxOut, inflight,
          call, future, queue, running, req, arg, ret, sys, run, realOut>>
validatorVars == <<script, verdict>>
managerVars == <<store, created, clock, appended, ctxOut, inflight>>
execVars == <<call, future, queue, running>>
analyzeVars == <<req>>
callVars == <<arg, ret>>
streamVars == <<sys, run, realOut>>

NotRun == [valid |-> FALSE, message |-> Msg("not run", <<>>)]
NoScript == [blank |-> TRUE, chars |-> 0, parses |-> TRUE, body |-> <<>>]

ValidatorIdle == script = NoScript /\ verdict = NotRun

NoArg == [op |-> "none"]
NoReturn == [kind |-> "none"]
CallIdle == arg = NoArg /\ ret = NoReturn

(***************************************************************************)
(* The validator on every script of the model                              *)
(***************************************************************************)
ValidatorStart == script \in ScriptSet /\ verdict = NotRun

ValidateScript ==
    /\ verdict = NotRun
    /\ verdict' = validate_code(script)
    /\ UNCHANGED <<script, managerVars, execVars, analyzeVars, callVars, streamVars>>

(***************************************************************************)
(* The conversation manager over the session store                         *)
(***************************************************************************)
SessionIds == {"s1"}
MaxCalls == 12

Min(a, b) == IF a < b THEN a ELSE b
Max(a, b) == IF a > b THEN a ELSE b

\* Python's seq[start:] for any integer start
PySliceFrom(seq, start) ==
    LET n == Len(seq)
        from == IF start < 0 THEN Max(n + start, 0) ELSE Min(start, n)
    IN  SubSeq(seq, from + 1, n)

\* Python's seq[:stop] for a stop >= 0
PySliceTo(seq, stop) == SubSeq(seq, 1, Min(stop, Len(seq)))

NoSession == [exists |-> FALSE]
\* a parsed table: its name and its shape
Dataset(name, rows, cols) == [name |-> name, rows |-> rows, cols |-> cols]
Csv1 == Dataset("csv1", 3, 2)

DEFAULT_SAMPLE_ROWS == 5

\* session_data of create_session
NewSession(data, now) ==
    [exists |-> TRUE, filename |-> data.name, created_at |-> now,
     row_count |-> data.rows, column_count |-> data.cols,
     data_sample |-> Min(DEFAULT_SAMPLE_ROWS, data.rows),
     full_data |-> data, conversation_history |-> <<>>]

\* None as a result and as an error
NoOutput == [kind |-> "none"]
NoError == [kind |-> "none"]

Datasets == {Csv1}
Payloads ==
    {[question |-> "q", code |-> "code", result |-> NoOutput,
      interpretation |-> "text", error |-> NoError]}

\* the classes a value is an instance of: bool is a subclass of int
ClassesOf(kind) ==
    CASE kind = "bool" -> {"bool", "int"}
      [] kind = "number" -> {"int"}
      [] kind \in {"text", "text...", "longtext", "str(None)"} -> {"str"}
      [] OTHER -> {kind}

\* the kind of a value: the dictionaries format_and_truncate_result builds
\* carry a type key
KindOf(result) == IF "kind" \in DOMAIN result THEN result.kind ELSE "dict"

\* isinstance(result, classes)
IsInstance(result, classes) == ClassesOf(KindOf(result)) \cap classes # {}

\* a summary: the form of its text and the value the text shows
Summary(form, result) == [form |-> form, of |-> result]

\* result.get('type') of a dictionary
TypeOf(result) == IF "type" \in DOMAIN result THEN result.type ELSE "none"

\* len(result) > 100 for a string: "text" is a string of at most 100
\* characters, "longtext" one of more than MAX_OUTPUT_SIZE characters and
\* "text..." its first MAX_OUTPUT_SIZE characters followed by '...'
LongString(result) == KindOf(result) \in {"longtext", "text..."}

\* _summarize_result: the branches in the order of the code
SummarizeResult(result) ==
    IF KindOf(result) = "none" THEN Summary("No result", NoOutput)
    ELSE IF IsInstance(result, {"dict"})
    THEN CASE TypeOf(result) = "dataframe" -> Summary("DataFrame with", result)
           [] TypeOf(result) = "series" -> Summary("Series with", result)
           [] TypeOf(result) = "array" -> Summary("Array with shape", result)
           [] OTHER -> Summary("Dictionary with", result)
    ELSE IF IsInstance(result, {"list", "tuple"}) THEN Summary("List with", result)
    ELSE IF IsInstance(result, {"int", "float"}) THEN Summary("Numeric value: ", result)
    ELSE IF IsInstance(result, {"bool"}) THEN Summary("Boolean value: ", result)
    ELSE IF IsInstance(result, {"str"})
    THEN IF LongString(result) THEN Summary("String (length: ", result)
         ELSE Summary("String: ", result)
    ELSE Summary("Result of type", result)

\* the interaction add_interaction composes: datetime.now() is read for the
\* id (reading now) and once more for the timestamp (the reading after it)
Interaction(sid, now, p) ==
    [id |-> <<sid, now>>, timestamp |-> now + 1, question |-> p.question,
     code |-> p.code, result_summary |-> SummarizeResult(p.result),
     interpretation |-> p.interpretation, error |-> p.error,
     full_result |-> p.result]

\* $slice with a positive count keeps the first n elements
PushSliceFirst(history, x, n) == PySliceTo(Append(history, x), n)

\* {"$push": {"conversation_history": {"$each": [x], "$slice": -n}}}:
\* append, then keep the last n elements
PushSlice(history, x, n) == PySliceFrom(Append(history, x), -n)

\* update_one({"_id": sid}, $push ...): no document matches an absent id
PushInteraction(st, sid, x) ==
    IF sid \in DOMAIN st /\ st[sid].exists
    THEN [st EXCEPT ![sid].conversation_history =
              PushSlice(@, x, MAX_CONVERSATION_HISTORY)]
    ELSE st

ConversationContext(i) ==
    [question |-> i.question, code |-> i.code,
     result_summary |-> i.result_summary, timestamp |-> i.timestamp]

NoLookback == [given |-> FALSE, value |-> 0]
GivenLookback(k) == [given |-> TRUE, value |-> k]

\* lookback = lookback or settings.CONTEXT_LOOKBACK
EffectiveLookback(lookback) ==
    IF lookback.given /\ lookback.value # 0 THEN lookback.value
    ELSE CONTEXT_LOOKBACK

\* history[-lookback:] if len(history) > lookback else history
RecentInteractions(history, k) ==
    IF Len(history) > k THEN PySliceFrom(history, -k) ELSE history

\* ConversationManager.get_conversation_context
get_conversation_context(st, sid, lookback, fault) ==
    IF fault THEN <<>>
    ELSE IF ~(sid \in DOMAIN st /\ st[sid].exists) THEN <<>>
    ELSE LET recent == RecentInteractions(st[sid].conversation_history,
                                          EffectiveLookback(lookback))
         IN  [i \in 1..Len(recent) |-> ConversationContext(recent[i])]

UnknownId == "unknown"
RequestIds == SessionIds \cup {UnknownId}
Lookbacks == {NoLookback} \cup {GivenLookback(k) : k \in -2..4}

NoCall == [called |-> FALSE]

ManagerIdle ==
    /\ store = [s \in SessionIds |-> NoSession]
    /\ created = {}
    /\ clock = 0
    /\ appended = [s \in SessionIds |-> <<>>]
    /\ ctxOut = NoCall
    /\ inflight = {}

\* the calls the model lets wait for the database at one time
MaxInflight == 2

\* a composed document or interaction on its way to the database
InsertOne(sid, doc) == [op |-> "insert_one", sid |-> sid, doc |-> doc]
UpdateOne(sid, x) == [op |-> "update_one", sid |-> sid, push |-> x]

\* create_session, for an upload that passes its checks, up to its await:
\* uuid4 gives the id, datetime.now() the created_at, and insert_one is
\* awaited; other coroutines run before the document is in the store
CreateSession(s, data) ==
    /\ s \in DOMAIN store \ created
    /\ ctxOut = NoCall
    /\ Cardinality(inflight) < MaxInflight
    /\ created' = created \cup {s}
    /\ clock' = clock + 1
    /\ inflight' = inflight \cup {InsertOne(s, NewSession(data, clock + 1))}
    /\ UNCHANGED <<store, appended, ctxOut, validatorVars, streamVars, callVars, execVars, analyzeVars>>

\* the insert_one of a create_session is applied
InsertApplied(x) ==
    /\ x \in inflight
    /\ x.op = "insert_one"
    /\ ctxOut = NoCall
    /\ store' = [store EXCEPT ![x.sid] = x.doc]
    /\ appended' = [appended EXCEPT ![x.sid] = <<>>]
    /\ inflight' = inflight \ {x}
    /\ UNCHANGED <<created, clock, ctxOut, validatorVars, streamVars, callVars, execVars, analyzeVars>>

\* delete_session
DeleteSession(s) ==
    /\ s \in DOMAIN store
    /\ store[s].exists
    /\ ctxOut = NoCall
    /\ store' = [store EXCEPT ![s] = NoSession]
    /\ appended' = [appended EXCEPT ![s] = <<>>]
    /\ UNCHANGED <<created, clock, ctxOut, inflight, validatorVars, streamVars, callVars, execVars, analyzeVars>>

\* ConversationManager.add_interaction up to its await: the interaction is
\* composed with two readings of datetime.now() and update_one is awaited;
\* other coroutines run before the update is applied
AddInteraction(sid, p) ==
    /\ clock < 2 * MaxCalls
    /\ ctxOut = NoCall
    /\ Cardinality(inflight) < MaxInflight
    /\ inflight' = inflight \cup {UpdateOne(sid, Interaction(sid, clock + 1, p))}
    /\ clock' = clock + 2
    /\ UNCHANGED <<store, created, appended, ctxOut, validatorVars, streamVars, callVars, execVars, analyzeVars>>

\* the update_one of an add_interaction is applied
PushApplied(x) ==
    /\ x \in inflight
    /\ x.op = "update_one"
    /\ ctxOut = NoCall
    /\ store' = PushInteraction(store, x.sid, x.push)
    /\ appended' = IF x.sid \in DOMAIN store /\ store[x.sid].exists
                   THEN [appended EXCEPT ![x.sid] = Append(@, x.push)]
                   ELSE appended
    /\ inflight' = inflight \ {x}
    /\ UNCHANGED <<created, clock, ctxOut, validatorVars, streamVars, callVars, execVars, analyzeVars>>

\* ConversationManager.clear_conversation_history
ClearHistory(sid) ==
    /\ sid \in SessionIds
    /\ store[sid].exists
    /\ ctxOut = NoCall
    /\ store[sid].conversation_history # <<>>
    /\ store' = [store EXCEPT ![sid].conversation_history = <<>>]
    /\ appended' = [appended EXCEPT ![sid] = <<>>]
    /\ UNCHANGED <<created, clock, ctxOut, inflight, validatorVars, streamVars, callVars, execVars, analyzeVars>>

\* a call of get_conversation_context and its return value
GetContext(sid, lookback, fault) ==
    /\ ctxOut = NoCall
    /\ ctxOut' = [called |-> TRUE, sid |-> sid, lookback |-> lookback,
                  fault |-> fault,
                  out |-> get_conversation_context(store, sid, lookback, fault)]
    /\ UNCHANGED <<store, created, clock, appended, inflight, validatorVars, streamVars, callVars, execVars, analyzeVars>>

\* the caller drops the returned context
DropContext ==
    /\ ctxOut # NoCall
    /\ ctxOut' = NoCall
    /\ UNCHANGED <<store, created, clock, appended, inflight, validatorVars, streamVars, callVars, execVars, analyzeVars>>

(***************************************************************************)
(* The executor: execute_code_safely and the two-worker pool               *)
(***************************************************************************)
MaxExecCalls == 2
\* Calls made before the modelled ones: each timed out, and its script may
\* still be running in a worker.
EarlierCalls == 1..MAX_WORKERS
NewCalls == (MAX_WORKERS + 1)..(MAX_WORKERS + MaxExecCalls)
CallIds == EarlierCalls \cup NewCalls

NoTimeout == [given |-> FALSE, value |-> 0]
GivenTimeout(t) == [given |-> TRUE, value |-> t]

\* timeout = timeout or settings.MAX_EXECUTION_TIMEOUT
EffectiveTimeout(override) ==
    IF override.given /\ override.value # 0 THEN override.value
    ELSE MAX_EXECUTION_TIMEOUT

\* execution_time: a fixed number, or the wall-clock time.time() - start_time
Fixed(t) == [measured |-> FALSE, value |-> t]
Measured == [measured |-> TRUE, value |-> 0]

ExecutionResult(success, output, error, time, truncated) ==
    [success |-> success, output |-> output, error |-> error,
     execution_time |-> time, truncated |-> truncated]

\* the result for a script validate_code rejects
\* the short-circuit result carries a measured time
ValidationFailureTimed(m) ==
    ExecutionResult(FALSE, NoOutput, [kind |-> "validation", message |-> m],
                    Measured, FALSE)

ValidationFailure(m) ==
    ExecutionResult(FALSE, NoOutput, [kind |-> "validation", message |-> m],
                    Fixed(0), FALSE)

\* the result when asyncio.wait_for raises TimeoutError
TimeoutFailure(t) ==
    ExecutionResult(FALSE, NoOutput, [kind |-> "timeout", seconds |-> t],
                    Fixed(t), FALSE)

\* The words of str(e) that the clean-up of error messages looks for.
NameErrorExc == [etype |-> "NameError", mentions |-> {"name", "is not defined"}]
KeyErrorExc == [etype |-> "KeyError", mentions |-> {}]
FormatExc == [etype |-> "FormatError", mentions |-> {}]
ScriptExceptions == {NameErrorExc, KeyErrorExc}

\* the if/elif chain over error_message
FriendlyPrefix(mentions) ==
    IF "name" \in mentions /\ "is not defined" \in mentions
    THEN "Variable or function not found: "
    ELSE IF "KeyError" \in mentions THEN "Column not found in DataFrame: "
    ELSE IF "TypeError" \in mentions THEN "Type error in operation: "
    ELSE IF "ValueError" \in mentions THEN "Invalid value or operation: "
    ELSE IF "AttributeError" \in mentions THEN "Attribute error: "
    ELSE ""

\* the except Exception branch of execute_code_safely; wrapped tells whether
\* run_code put "Execution error: " before str(e)
ExecutionFailure(exc, wrapped) ==
    ExecutionResult(FALSE, NoOutput,
                    [kind |-> "execution", prefix |-> FriendlyPrefix(exc.mentions),
                     wrapped |-> wrapped, exc |-> exc],
                    Measured, FALSE)

MAX_SAMPLE_ROWS == 10

\* a DataFrame: its rows, by label and in order, and its number of columns
DataFrame(rows, cols) == [kind |-> "dataframe", rows |-> rows, cols |-> cols]
FrameOfRows(r) == DataFrame([i \in 1..r |-> i], 2)

\* What run_code returns: a number, a DataFrame, or an object whose
\* conversion to text raises.
Values ==
    {[kind |-> "number"], [kind |-> "unprintable"]}
    \cup {FrameOfRows(r) : r \in {0, MAX_SAMPLE_ROWS, MAX_SAMPLE_ROWS + 1}}

\* a frame of exactly MAX_SAMPLE_ROWS rows is cut too
TooLongAtCap(n) == n >= MAX_SAMPLE_ROWS

\* len(result) > settings.MAX_SAMPLE_ROWS
TooLong(n) == n > MAX_SAMPLE_ROWS

\* DataFrame.head(n)
HeadRows(rows, n) == SubSeq(rows, 1, Min(n, Len(rows)))

\* str(result) in the last branch: the exception the object's __str__ raises
StrRaises(v) == IF "raises" \in DOMAIN v THEN v.raises ELSE FormatExc

\* format_and_truncate_result: (formatted, truncated), or an exception
format_and_truncate_result(v) ==
    CASE v.kind = "dataframe" ->
           LET truncated == TooLong(Len(v.rows))
               display_df == IF truncated THEN HeadRows(v.rows, MAX_SAMPLE_ROWS)
                             ELSE v.rows
           IN  [raised |-> FALSE,
                output |-> [type |-> "dataframe", data |-> display_df,
                            shape |-> <<Len(v.rows), v.cols>>,
                            truncated |-> truncated,
                            total_rows |-> Len(v.rows), columns |-> v.cols],
                truncated |-> truncated]
      [] v.kind = "text" -> [raised |-> FALSE, output |-> v, truncated |-> FALSE]
      [] v.kind = "number" -> [raised |-> FALSE, output |-> v, truncated |-> FALSE]
      [] v.kind = "None" ->
           [raised |-> FALSE, output |-> [kind |-> "str(None)"], truncated |-> FALSE]
      [] v.kind = "longtext" ->
           [raised |-> FALSE, output |-> [kind |-> "text..."], truncated |-> TRUE]
      [] OTHER -> [raised |-> TRUE, exc |-> StrRaises(v), output |-> NoOutput,
                   truncated |-> FALSE]

\* How a run of a script in a worker ends: it returns a value, raises an
\* Exception, or raises SystemExit / KeyboardInterrupt.
Outcomes ==
    {[kind |-> "value", value |-> v] : v \in Values}
    \cup {[kind |-> "exception", exc |-> e] : e \in ScriptExceptions}
    \cup {[kind |-> "exit"]}

NoFuture == [state |-> "none"]
PendingFuture == [state |-> "pending"]
CancelledFuture == [state |-> "cancelled"]
DoneFuture(outcome) == [state |-> "done", outcome |-> outcome]

IdleCall == [pc |-> "idle"]

NoDataset == Dataset("none", 0, 0)

\* the namespace's df is the caller's object
NamespaceAliasesDfAlways(c) == TRUE

\* 'df': df.copy(): the namespace's df is an object of its own
NamespaceAliasesDf(c) == FALSE

\* what a script that changes its df in place leaves of it
Mutated(d) == Dataset("mutated", 0, d.cols)

ValidScript == ParsedScript(SmallLength, <<Assign(<<ResultTarget>>, Constant)>>)
ImportScript == ParsedScript(SmallLength, <<Import(<< <<"os">> >>)>>)
NoResultScript == ParsedScript(SmallLength, <<Assign(<<OtherTarget>>, Constant)>>)

(***************************************************************************)
(* run_code's redirection of the process's standard streams                *)
(***************************************************************************)
\* what sys.stdout and sys.stderr can be bound to: the process's own streams
\* and the StringIO buffers of the calls
RealStdout == [stream |-> "stdout"]
RealStderr == [stream |-> "stderr"]
OutputBuffer(c) == [stream |-> "output_buffer", of |-> c]
ErrorBuffer(c) == [stream |-> "error_buffer", of |-> c]

NotStarted ==
    [pc |-> "start", old_stdout |-> RealStdout, old_stderr |-> RealStderr,
     file |-> RealStdout, output |-> <<>>, prints |-> 0, ending |-> "none"]

StreamIdle ==
    /\ sys = [stdout |-> RealStdout, stderr |-> RealStderr]
    /\ run = [c \in CallIds |-> NotStarted]
    /\ realOut = <<>>

ExecIdle ==
    /\ call = [c \in CallIds |-> IdleCall]
    /\ future = [c \in CallIds |-> NoFuture]
    /\ queue = <<>>
    /\ running = {}

\* The executor after the earlier calls: every one of them has returned the
\* timeout result, and any of their scripts may still occupy a worker.
ExecAfterEarlierCalls ==
    /\ call = [c \in CallIds |->
                 IF c \in EarlierCalls
                 THEN [pc |-> "returned", df |-> Csv1, namespace |-> Csv1,
                       aliased |-> NamespaceAliasesDf(c), script |-> ValidScript,
                       override |-> NoTimeout,
                       timeout |-> EffectiveTimeout(NoTimeout), timedOut |-> TRUE,
                       result |-> TimeoutFailure(EffectiveTimeout(NoTimeout))]
                 ELSE IdleCall]
    /\ future = [c \in CallIds |->
                   IF c \in EarlierCalls THEN CancelledFuture ELSE NoFuture]
    /\ queue = <<>>
    /\ running \in SUBSET EarlierCalls

\* the work item of a cancelled future stays in the queue and is run
RemoveFromQueueNever(q, c) == q

\* a cancelled future's work item is skipped by the workers
RemoveFromQueue(q, c) == SelectSeq(q, LAMBDA x : x # c)

\* 'df': df.copy() stands before the try: its exception leaves the call
CopyFailure(c, data, s, override) ==
    [pc |-> "raised", df |-> data, namespace |-> NoDataset, aliased |-> FALSE,
     script |-> s, override |-> override,
     timeout |-> EffectiveTimeout(override), timedOut |-> FALSE,
     result |-> NoOutput]

\* execute_code_safely up to its await: validation, the namespace with the
\* copy of the dataset, and the submission of run_code to the pool
ExecStart(c, data, s, override, copyFails) ==
    /\ call[c].pc = "idle"
    /\ LET v == validate_code(s)
           t == EffectiveTimeout(override)
       IN  IF ~v.valid
           THEN /\ call' = [call EXCEPT ![c] =
                      [pc |-> "returned", df |-> data, namespace |-> NoDataset,
                       aliased |-> FALSE, script |-> s, override |-> override,
                       timeout |-> t, timedOut |-> FALSE,
                       result |-> ValidationFailure(v.message)]]
                /\ UNCHANGED <<future, queue, running>>
           ELSE IF copyFails
           THEN /\ call' = [call EXCEPT ![c] = CopyFailure(c, data, s, override)]
                /\ UNCHANGED <<future, queue, running>>
           ELSE /\ call' = [call EXCEPT ![c] =
                      [pc |-> "waiting", df |-> data, namespace |-> data,
                       aliased |-> NamespaceAliasesDf(c), script |-> s,
                       override |-> override,
                       timeout |-> t, timedOut |-> FALSE, result |-> NoOutput]]
                /\ future' = [future EXCEPT ![c] = PendingFuture]
                /\ queue' = Append(queue, c)
                /\ UNCHANGED running

\* a worker is found for every work item
WorkerFreeAlways == TRUE

\* ThreadPoolExecutor(max_workers=2): one of the workers is idle
WorkerFree == Cardinality(running) < MAX_WORKERS

\* a free worker takes the oldest work item and starts run_code
WorkerTake ==
    /\ queue # <<>>
    /\ WorkerFree
    /\ running' = running \cup {Head(queue)}
    /\ queue' = Tail(queue)
    /\ UNCHANGED <<call, future>>

\* run_code ends in a worker; the outcome of a future that was cancelled
\* meanwhile is dropped
WorkerFinish(c, outcome) ==
    /\ c \in running
    /\ running' = running \ {c}
    /\ future' = IF future[c].state = "pending"
                 THEN [future EXCEPT ![c] = DoneFuture(outcome)]
                 ELSE future
    /\ UNCHANGED <<call, queue>>

\* the script running in a worker changes the df of its namespace in place
ScriptMutatesDf(c) ==
    /\ c \in running
    /\ call[c].namespace # Mutated(call[c].namespace)
    /\ call' = [call EXCEPT ![c] =
                  [call[c] EXCEPT !.namespace = Mutated(@),
                                  !.df = IF call[c].aliased THEN Mutated(@) ELSE @]]
    /\ UNCHANGED <<future, queue, running>>

\* SystemExit and KeyboardInterrupt are no Exception: the await raises what
\* the future carries and the except Exception clause lets it pass
ExitEscapes(c) == [call[c] EXCEPT !.pc = "raised"]

\* execute_code_safely after the await, when the future is done in time
ExecResume(c) ==
    /\ call[c].pc = "waiting"
    /\ call[c].timeout > 0
    /\ future[c].state = "done"
    /\ LET o == future[c].outcome
           f == format_and_truncate_result(o.value)
       IN  call' = [call EXCEPT ![c] =
             CASE o.kind = "exit" -> ExitEscapes(c)
               [] o.kind = "exception" ->
                    [call[c] EXCEPT !.pc = "returned",
                                    !.result = ExecutionFailure(o.exc, TRUE)]
               [] o.kind = "value" /\ f.raised ->
                    [call[c] EXCEPT !.pc = "returned",
                                    !.result = ExecutionFailure(f.exc, FALSE)]
               [] OTHER ->
                    [call[c] EXCEPT !.pc = "returned",
                                    !.result = ExecutionResult(TRUE, f.output, NoError,
                                                               Measured, f.truncated)]]
    /\ UNCHANGED <<future, queue, running>>

\* the deadline of asyncio.wait_for passes before the future is done: the
\* future is cancelled, a work item still in the queue is dropped, a script
\* already in a worker keeps running; with a timeout below zero wait_for
\* gives up at once, whatever the worker does
ExecTimeout(c) ==
    /\ call[c].pc = "waiting"
    /\ future[c].state = "pending" \/ call[c].timeout <= 0
    /\ call' = [call EXCEPT ![c] =
                  [call[c] EXCEPT !.pc = "returned", !.timedOut = TRUE,
                                  !.result = TimeoutFailure(call[c].timeout)]]
    /\ future' = [future EXCEPT ![c] = CancelledFuture]
    /\ queue' = RemoveFromQueue(queue, c)
    /\ UNCHANGED running

(***************************************************************************)
(* Direct calls of execute_code_safely                                     *)
(***************************************************************************)
ExecScripts == {ValidScript, ImportScript}
Overrides == {NoTimeout, GivenTimeout(0), GivenTimeout(2), GivenTimeout(-1)}

\* a caller calls execute_code_safely(df, code, timeout)
ExecCall(c, s, override, copyFails) ==
    /\ c \in NewCalls
    /\ call[c - 1].pc # "idle"
    /\ ExecStart(c, Csv1, s, override, copyFails)
    /\ UNCHANGED <<validatorVars, streamVars, callVars, managerVars, analyzeVars>>

ExecWorkerTake == WorkerTake /\ UNCHANGED <<validatorVars, streamVars, callVars, managerVars, analyzeVars>>

ExecWorkerFinish(c, outcome) ==
    WorkerFinish(c, outcome) /\ UNCHANGED <<validatorVars, streamVars, callVars, managerVars, analyzeVars>>

ExecReturn(c) == ExecResume(c) /\ UNCHANGED <<validatorVars, streamVars, callVars, managerVars, analyzeVars>>

ExecDeadline(c) == ExecTimeout(c) /\ UNCHANGED <<validatorVars, streamVars, callVars, managerVars, analyzeVars>>


AnalyzeIdle == req = <<>>

InitExec ==
    ValidatorIdle /\ ManagerIdle /\ ExecAfterEarlierCalls /\ AnalyzeIdle /\ CallIdle /\ StreamIdle

NextExec ==
    \/ \E c \in NewCalls, s \in ExecScripts, o \in Overrides, f \in BOOLEAN :
           ExecCall(c, s, o, f)
    \/ ExecWorkerTake
    \/ \E c \in CallIds, o \in Outcomes : ExecWorkerFinish(c, o)
    \/ \E c \in CallIds : ExecReturn(c)
    \/ \E c \in CallIds : ExecDeadline(c)

SpecExec == InitExec /\ [][NextExec]_vars

\* the event loop runs the callbacks that are due: the deadline of wait_for
\* and the resumption of a call whose future is done; nothing makes a script
\* in a worker finish
SpecExecFair ==
    /\ SpecExec
    /\ \A c \in NewCalls : WF_vars(ExecDeadline(c)) /\ WF_vars(ExecReturn(c))

(***************************************************************************)
(* analyze_data: one request per id, each a chain of steps that yield at   *)
(* the handler's awaits                                                    *)
(***************************************************************************)
\* a request and its execute_code_safely call share an id
Reqs == NewCalls

FallbackInterpretation ==
    "The analysis encountered an error. Please try rephrasing your question."

\* code_prompt, and retry_prompt = code_prompt + the validation message
Prompt(sid, question, context, failure) ==
    [sid |-> sid, question |-> question, context |-> context, failure |-> failure]

HttpFailure(status, detail, message) ==
    [kind |-> "failure", status |-> status, detail |-> detail, message |-> message]

AnalysisResponse(rq, conversation_id) ==
    [kind |-> "analysis", question |-> rq.question,
     generated_code |-> rq.codes[Len(rq.codes)],
     raw_result |-> IF rq.execution.success THEN rq.execution.output ELSE NoOutput,
     interpretation |-> rq.interpretation, error |-> rq.error,
     execution_time |-> rq.execution.execution_time,
     conversation_id |-> conversation_id]

NoResponse == [kind |-> "none"]
NoExecution == ExecutionResult(FALSE, NoOutput, NoError, Fixed(0), FALSE)
NoInteraction == [id |-> <<>>]

NewRequest == [pc |-> "new"]

StartedRequest(sid, question, session) ==
    [pc |-> "context", sid |-> sid, question |-> question,
     session |-> session, context |-> <<>>,
     prompts |-> <<>>, codes |-> <<>>, execution |-> NoExecution,
     interpretation |-> None, error |-> NoError, interaction |-> NoInteraction,
     pushes |-> 0, response |-> NoResponse]

Fail(rq, status, detail, message) ==
    [rq EXCEPT !.pc = "failed", !.response = HttpFailure(status, detail, message)]

\* f"{result}" of a number or a boolean: an int in digits, a float (the model's
\* floats are the whole ones) in digits with ".0"; "n" is a number the model
\* does not tell from another
Shown(result) ==
    IF "value" \in DOMAIN result
    THEN (IF result.kind = "float" THEN ToString(result.value) \o ".0"
          ELSE ToString(result.value))
    ELSE IF "truth" \in DOMAIN result
    THEN (IF result.truth THEN "True" ELSE "False")
    ELSE "n"

\* interpret_results: the completion, or the basic sentence when the
\* completion call fails
Interpret(output, llmFails) ==
    IF ~llmFails THEN "interpretation by the model"
    ELSE IF IsInstance(output, {"dict"}) /\ TypeOf(output) = "dataframe"
    THEN "Analysis completed successfully. The result is a table with "
         \o ToString(output.shape[1]) \o " rows and "
         \o ToString(output.shape[2]) \o " columns."
    ELSE IF IsInstance(output, {"int", "float"})
    THEN "The calculated result is: " \o Shown(output)
    ELSE "Analysis completed successfully. The results are shown above."

\* the arguments analyze_data hands to add_interaction
InteractionPayload(rq) ==
    [question |-> rq.question, code |-> rq.codes[Len(rq.codes)],
     result |-> IF rq.execution.success THEN rq.execution.output ELSE NoOutput,
     interpretation |-> rq.interpretation, error |-> rq.error]

\* add_interaction up to its await: the interaction is composed
ComposeInteraction(rq, now) ==
    [rq EXCEPT !.pc = "append",
               !.interaction = Interaction(rq.sid, now, InteractionPayload(rq))]

\* every execution result is handed to interpret_results
AfterExecutionInterpreted(rq, res, now) ==
    [rq EXCEPT !.pc = "interpret", !.execution = res]

\* steps 7 and 8 of analyze_data, from the execution result to the next await
AfterExecution(rq, res, now) ==
    IF res.success
    THEN [rq EXCEPT !.pc = "interpret", !.execution = res]
    ELSE ComposeInteraction(
             [rq EXCEPT !.execution = res,
                        !.interpretation = FallbackInterpretation,
                        !.error = res.error], now)

\* an exception execute_code_safely lets out ends the request
AfterCall(rq, c, now) ==
    CASE c.pc = "waiting" -> [rq EXCEPT !.pc = "exec"]
      [] c.pc = "returned" -> AfterExecution(rq, c.result, now)
      [] OTHER -> Fail(rq, 500, "Internal Server Error", NoMessage)

ClockAfter(rq) == IF rq.pc = "append" THEN clock + 2 ELSE clock

\* every id is taken for a stored session
SessionFoundAlways(sid) == TRUE

\* find_one({"_id": session_id}): the stored document, or None
FindOne(sid) == IF sid \in DOMAIN store THEN store[sid] ELSE NoSession

\* "if not session" is false
SessionFound(sid) == FindOne(sid).exists

\* steps 1 and 2: find_one, 404 for an unknown id
AnalyzeFind(r, sid, question) ==
    /\ req[r].pc = "new"
    /\ r - 1 \in Reqs => req[r - 1].pc # "new"
    /\ req' = [req EXCEPT ![r] =
                 IF SessionFound(sid)
                 THEN StartedRequest(sid, question, FindOne(sid))
                 ELSE Fail(StartedRequest(sid, question, NoSession),
                           404, "Session not found", NoMessage)]
    /\ UNCHANGED <<validatorVars, streamVars, callVars, managerVars, execVars>>

\* steps 3 and 4: the context is read, the prompt built, the completion asked
AnalyzeContext(r, fault) ==
    /\ req[r].pc = "context"
    /\ LET rq == req[r]
           ctx == get_conversation_context(store, rq.sid, NoLookback, fault)
       IN  req' = [req EXCEPT ![r] =
                     [rq EXCEPT !.pc = "generate", !.context = ctx,
                                !.prompts = <<Prompt(rq.sid, rq.question, ctx, NoMessage)>>]]
    /\ UNCHANGED <<validatorVars, streamVars, callVars, managerVars, execVars>>

\* the first completion fails: 500
AnalyzeGenerationFails(r) ==
    /\ req[r].pc = "generate"
    /\ req' = [req EXCEPT ![r] = Fail(@, 500, "Error generating code: ", NoMessage)]
    /\ UNCHANGED <<validatorVars, streamVars, callVars, managerVars, execVars>>

\* the retry prompt never names the failure
RetryPromptWithoutMessage(rq, message) ==
    Prompt(rq.sid, rq.question, rq.context, NoMessage)

\* retry_prompt = code_prompt + "Previous attempt failed validation: ..."
RetryPrompt(rq, message) == Prompt(rq.sid, rq.question, rq.context, message)

\* step 5 and 6: the first completion returns a script; it is validated and
\* either run or regenerated
AnalyzeGenerated(r, s, copyFails) ==
    /\ req[r].pc = "generate"
    /\ LET v == validate_code(s)
           rq == [req[r] EXCEPT !.codes = <<s>>]
       IN  IF v.valid
           THEN /\ ExecStart(r, rq.session.full_data, s, NoTimeout, copyFails)
                /\ req' = [req EXCEPT ![r] = AfterCall(rq, call'[r], clock + 1)]
                /\ clock' = ClockAfter(req'[r])
           ELSE /\ req' = [req EXCEPT ![r] =
                      [rq EXCEPT !.pc = "regenerate",
                                 !.prompts = Append(@, RetryPrompt(rq, v.message))]]
                /\ UNCHANGED <<clock, execVars>>
    /\ UNCHANGED <<validatorVars, streamVars, callVars, store, created, appended, ctxOut, inflight>>

\* the second completion fails: 500
AnalyzeRegenerationFails(r) ==
    /\ req[r].pc = "regenerate"
    /\ req' = [req EXCEPT ![r] = Fail(@, 500, "Error regenerating code: ", NoMessage)]
    /\ UNCHANGED <<validatorVars, streamVars, callVars, managerVars, execVars>>

\* a second rejection is recorded as an interaction
SecondRejectionRecorded(rq, message) ==
    ComposeInteraction([rq EXCEPT !.interpretation = FallbackInterpretation],
                       clock + 1)

\* raise HTTPException(400, "Generated code failed validation: ...")
SecondRejection(rq, message) ==
    Fail(rq, 400, "Generated code failed validation: ", message)

\* the second completion returns a script: a second rejection is final
AnalyzeRegenerated(r, s, copyFails) ==
    /\ req[r].pc = "regenerate"
    /\ LET v == validate_code(s)
           rq == [req[r] EXCEPT !.codes = Append(@, s)]
       IN  IF v.valid
           THEN /\ ExecStart(r, rq.session.full_data, s, NoTimeout, copyFails)
                /\ req' = [req EXCEPT ![r] = AfterCall(rq, call'[r], clock + 1)]
                /\ clock' = ClockAfter(req'[r])
           ELSE /\ req' = [req EXCEPT ![r] = SecondRejection(rq, v.message)]
                /\ UNCHANGED <<clock, execVars>>
    /\ UNCHANGED <<validatorVars, streamVars, callVars, store, created, appended, ctxOut, inflight>>

\* execute_code_safely returns (or raises) after its await
AnalyzeExecuted(r) ==
    /\ req[r].pc = "exec"
    /\ ExecResume(r)
    /\ req' = [req EXCEPT ![r] = AfterCall(@, call'[r], clock + 1)]
    /\ clock' = ClockAfter(req'[r])
    /\ UNCHANGED <<validatorVars, streamVars, callVars, store, created, appended, ctxOut, inflight>>

\* the deadline passes: execute_code_safely returns the timeout result
AnalyzeTimedOut(r) ==
    /\ req[r].pc = "exec"
    /\ ExecTimeout(r)
    /\ req' = [req EXCEPT ![r] = AfterCall(@, call'[r], clock + 1)]
    /\ clock' = ClockAfter(req'[r])
    /\ UNCHANGED <<validatorVars, streamVars, callVars, store, created, appended, ctxOut, inflight>>

\* interpret_results returns; add_interaction composes the interaction
AnalyzeInterpreted(r, llmFails) ==
    /\ req[r].pc = "interpret"
    /\ req' = [req EXCEPT ![r] =
                 ComposeInteraction(
                     [req[r] EXCEPT !.interpretation =
                                        Interpret(req[r].execution.output, llmFails)],
                     clock + 1)]
    /\ clock' = clock + 2
    /\ UNCHANGED <<validatorVars, streamVars, callVars, store, created, appended, ctxOut, inflight, execVars>>

\* the update is applied to the document the request read at step 1
PushTargetRead(r) == [store EXCEPT ![req[r].sid] = req[r].session]

\* update_one is applied to the stored document
PushTarget(r) == store

\* the update_one of add_interaction is applied, and step 9 returns the
\* response
AnalyzeAppend(r) ==
    /\ req[r].pc = "append"
    /\ LET x == req[r].interaction
           sid == req[r].sid
       IN  /\ store' = PushInteraction(PushTarget(r), sid, x)
           /\ appended' = IF store[sid].exists
                          THEN [appended EXCEPT ![sid] = Append(@, x)]
                          ELSE appended
           /\ req' = [req EXCEPT ![r] =
                        [@ EXCEPT !.pc = "done", !.pushes = @ + 1,
                                  !.response = AnalysisResponse(req[r], x.id)]]
    /\ UNCHANGED <<validatorVars, streamVars, callVars, created, clock, ctxOut, inflight, execVars>>

\* the update_one of add_interaction faults: the exception leaves the handler
AnalyzeAppendFaults(r) ==
    /\ req[r].pc = "append"
    /\ req' = [req EXCEPT ![r] = Fail(@, 500, "Internal Server Error", NoMessage)]
    /\ UNCHANGED <<validatorVars, streamVars, callVars, managerVars, execVars>>

AnalyzeWorkerTake == WorkerTake /\ UNCHANGED <<validatorVars, streamVars, callVars, managerVars, analyzeVars>>

AnalyzeWorkerFinish(c, outcome) ==
    WorkerFinish(c, outcome) /\ UNCHANGED <<validatorVars, streamVars, callVars, managerVars, analyzeVars>>

\* delete_session, concurrent with the requests
AnalyzeDelete(s) ==
    /\ store[s].exists
    /\ store' = [store EXCEPT ![s] = NoSession]
    /\ appended' = [appended EXCEPT ![s] = <<>>]
    /\ UNCHANGED <<validatorVars, streamVars, callVars, created, clock, ctxOut, inflight, execVars, analyzeVars>>

RECURSIVE EarlierHistory(_, _)
\* the history h earlier analyze calls left in session sid
EarlierHistory(sid, h) ==
    IF h = 0 THEN <<>>
    ELSE Append(EarlierHistory(sid, h - 1),
                Interaction(sid, 2 * h - 1,
                                    [question |-> "earlier", code |-> ValidScript,
                                     result |-> NoOutput,
                                     interpretation |-> FallbackInterpretation,
                                     error |-> [kind |-> "timeout",
                                                seconds |-> MAX_EXECUTION_TIMEOUT]]))

EarlierLengths == {0, MAX_CONVERSATION_HISTORY - 1}
GenScripts == {ValidScript, ImportScript, NoResultScript}
AnalyzeOutcomes ==
    {[kind |-> "value", value |-> [kind |-> "number"]],
     [kind |-> "exception", exc |-> NameErrorExc],
     [kind |-> "exit"]}
Questions == {"q"}

InitAnalyze ==
    /\ ValidatorIdle
    /\ CallIdle /\ StreamIdle
    /\ ExecIdle
    /\ \E h \in EarlierLengths :
          /\ store = [s \in SessionIds |->
                        [NewSession(Csv1, 0) EXCEPT
                            !.conversation_history = EarlierHistory(s, h)]]
          /\ appended = [s \in SessionIds |-> EarlierHistory(s, h)]
          /\ clock = 2 * h
    /\ created = SessionIds
    /\ ctxOut = NoCall
    /\ inflight = {}
    /\ req = [r \in Reqs |-> NewRequest]

NextAnalyze ==
    \/ \E r \in Reqs, s \in RequestIds, q \in Questions : AnalyzeFind(r, s, q)
    \/ \E r \in Reqs, f \in BOOLEAN : AnalyzeContext(r, f)
    \/ \E r \in Reqs : AnalyzeGenerationFails(r)
    \/ \E r \in Reqs, s \in GenScripts, f \in BOOLEAN : AnalyzeGenerated(r, s, f)
    \/ \E r \in Reqs : AnalyzeRegenerationFails(r)
    \/ \E r \in Reqs, s \in GenScripts, f \in BOOLEAN : AnalyzeRegenerated(r, s, f)
    \/ AnalyzeWorkerTake
    \/ \E c \in Reqs, o \in AnalyzeOutcomes : AnalyzeWorkerFinish(c, o)
    \/ \E r \in Reqs : AnalyzeExecuted(r)
    \/ \E r \in Reqs : AnalyzeTimedOut(r)
    \/ \E r \in Reqs, f \in BOOLEAN : AnalyzeInterpreted(r, f)
    \/ \E r \in Reqs : AnalyzeAppend(r)
    \/ \E r \in Reqs : AnalyzeAppendFaults(r)
    \/ \E s \in SessionIds : AnalyzeDelete(s)

SpecAnalyze == InitAnalyze /\ [][NextAnalyze]_vars

(***************************************************************************)
(* get_session and list_sessions                                           *)
(***************************************************************************)
LIST_LIMIT == 100

HttpError(status) == [kind |-> "failure", status |-> status]

\* get_session: the document without full_data, or 404
get_session(st, sid) ==
    IF ~(sid \in DOMAIN st /\ st[sid].exists) THEN HttpError(404)
    ELSE [kind |-> "session", id |-> sid, filename |-> st[sid].filename,
          created_at |-> st[sid].created_at, row_count |-> st[sid].row_count,
          column_count |-> st[sid].column_count,
          data_sample |-> st[sid].data_sample,
          conversation_history |-> st[sid].conversation_history]

StoredIds(st) == {i \in DOMAIN st : st[i].exists}

RECURSIVE NewestFirst(_, _)
\* sort("created_at", -1) over the documents with the ids given
NewestFirst(st, ids) ==
    IF ids = {} THEN <<>>
    ELSE LET m == CHOOSE i \in ids :
                      \A j \in ids : st[j].created_at <= st[i].created_at
         IN  <<m>> \o NewestFirst(st, ids \ {m})

SessionSummary(st, i) ==
    [id |-> i, filename |-> st[i].filename, created_at |-> st[i].created_at,
     row_count |-> st[i].row_count, column_count |-> st[i].column_count]

\* cursor.limit(n): 0 is no limit, a negative n is a limit of -n
CursorLimit(seq, n) ==
    IF n = 0 THEN seq
    ELSE SubSeq(seq, 1, Min(IF n < 0 THEN -n ELSE n, Len(seq)))

\* cursor.skip(n), n >= 0
CursorSkip(seq, n) == SubSeq(seq, n + 1, Len(seq))

\* list_sessions: find().sort().skip(skip).limit(min(limit, 100)) and the
\* count; cursor.skip raises ValueError for a negative skip
list_sessions(st, limit, skip) ==
    IF skip < 0 THEN HttpError(500)
    ELSE LET sorted == NewestFirst(st, StoredIds(st))
             page == CursorLimit(CursorSkip(sorted, skip), Min(limit, LIST_LIMIT))
         IN  [kind |-> "list",
              sessions |-> [k \in 1..Len(page) |-> SessionSummary(st, page[k])],
              total |-> Cardinality(StoredIds(st))]

\* a caller calls get_session
GetSession(sid) ==
    /\ arg = NoArg
    /\ arg' = [op |-> "get_session", sid |-> sid]
    /\ ret' = get_session(store, sid)
    /\ UNCHANGED <<validatorVars, streamVars, managerVars, execVars, analyzeVars>>

\* the documents the find command answers with before the cursor asks for
\* more
FIRST_BATCH == 101

\* the first batch is read and the cursor waits for the next one
CursorOpen(sessions) == [kind |-> "cursor open", sessions |-> sessions]

\* the cursor is read, and count_documents is not yet
CursorRead(sessions) == [kind |-> "cursor read", sessions |-> sessions]

\* a caller calls list_sessions; the handler runs to its next await with
\* the batch the find command gave: to the next batch of `async for` when
\* the cursor has no limit and more than FIRST_BATCH documents to give, else
\* to count_documents; it ends at once when cursor.skip raises
ListSessions(limit, skip) ==
    /\ arg = NoArg
    /\ arg' = [op |-> "list_sessions", limit |-> limit, skip |-> skip]
    /\ ret' = LET r == list_sessions(store, limit, skip)
              IN  IF r.kind # "list" THEN r
                  ELSE IF Min(limit, LIST_LIMIT) = 0 /\ Len(r.sessions) > FIRST_BATCH
                  THEN CursorOpen(SubSeq(r.sessions, 1, FIRST_BATCH))
                  ELSE CursorRead(r.sessions)
    /\ UNCHANGED <<validatorVars, streamVars, managerVars, execVars, analyzeVars>>

\* the next batch of `async for`: the scan of the created_at index goes on
\* behind the last document read, over the store as it is by then
ListMore ==
    /\ ret.kind = "cursor open"
    /\ ret' = LET last == ret.sessions[Len(ret.sessions)].created_at
                  ids == {i \in StoredIds(store) : store[i].created_at < last}
                  more == NewestFirst(store, ids)
              IN  CursorRead(ret.sessions \o
                             [k \in 1..Len(more) |-> SessionSummary(store, more[k])])
    /\ UNCHANGED <<arg, validatorVars, streamVars, managerVars, execVars, analyzeVars>>

\* count_documents({}) is answered from the store as it is by then, and
\* list_sessions returns
ListCounted ==
    /\ ret.kind = "cursor read"
    /\ ret' = [kind |-> "list", sessions |-> ret.sessions,
               total |-> Cardinality(StoredIds(store))]
    /\ UNCHANGED <<arg, validatorVars, streamVars, managerVars, execVars, analyzeVars>>

(***************************************************************************)
(* One analyze request among the other operations on its session           *)
(***************************************************************************)
FirstReq == {MAX_WORKERS + 1}

FrameScriptMutatesDf(c) ==
    ScriptMutatesDf(c) /\ UNCHANGED <<validatorVars, streamVars, callVars, managerVars, analyzeVars>>

NextFrame ==
    \/ \E r \in FirstReq, s \in SessionIds, q \in Questions : AnalyzeFind(r, s, q)
    \/ \E r \in FirstReq : AnalyzeContext(r, FALSE)
    \/ \E r \in FirstReq : AnalyzeGenerationFails(r)
    \/ \E r \in FirstReq, s \in GenScripts : AnalyzeGenerated(r, s, FALSE)
    \/ \E r \in FirstReq : AnalyzeRegenerationFails(r)
    \/ \E r \in FirstReq, s \in GenScripts : AnalyzeRegenerated(r, s, FALSE)
    \/ AnalyzeWorkerTake
    \/ \E c \in FirstReq, o \in AnalyzeOutcomes : AnalyzeWorkerFinish(c, o)
    \/ \E c \in FirstReq : FrameScriptMutatesDf(c)
    \/ \E r \in FirstReq : AnalyzeExecuted(r)
    \/ \E r \in FirstReq : AnalyzeTimedOut(r)
    \/ \E r \in FirstReq, f \in BOOLEAN : AnalyzeInterpreted(r, f)
    \/ \E r \in FirstReq : AnalyzeAppend(r)
    \/ \E r \in FirstReq : AnalyzeAppendFaults(r)
    \/ \E s \in SessionIds, p \in Payloads : AddInteraction(s, p)
    \/ \E x \in inflight : PushApplied(x)
    \/ \E s \in SessionIds : ClearHistory(s)
    \/ \E s \in SessionIds : GetContext(s, NoLookback, FALSE)
    \/ DropContext
    \/ \E s \in SessionIds : GetSession(s)
    \/ ListSessions(LIST_LIMIT, 0)
    \/ ListCounted

\* the session holds the interactions of N earlier analyze calls
InitFrame ==
    /\ ValidatorIdle
    /\ CallIdle /\ StreamIdle
    /\ ExecIdle
    /\ store = [s \in SessionIds |->
                  [NewSession(Csv1, 0) EXCEPT
                      !.conversation_history =
                          EarlierHistory(s, MAX_CONVERSATION_HISTORY)]]
    /\ appended = [s \in SessionIds |->
                     EarlierHistory(s, MAX_CONVERSATION_HISTORY)]
    /\ clock = 2 * MAX_CONVERSATION_HISTORY
    /\ created = SessionIds
    /\ ctxOut = NoCall
    /\ inflight = {}
    /\ req = [r \in Reqs |-> NewRequest]

SpecFrame == InitFrame /\ [][NextFrame]_vars

(***************************************************************************)
(* create_session                                                          *)
(***************************************************************************)
MAX_UPLOAD_SIZE == 104857600
MAX_DATAFRAME_SIZE == 100000000

\* an uploaded file: its name, its size in bytes and what read_csv makes of
\* its contents
UploadFile(stem, ext, size, parsed) ==
    [stem |-> stem, ext |-> ext, size |-> size, parsed |-> parsed]

Table(rows, cols) == [kind |-> "table", rows |-> rows, cols |-> cols]
EmptyDataError == [kind |-> "EmptyDataError"]
ParserError == [kind |-> "ParserError"]
OtherError == [kind |-> "Exception"]

\* file.filename.endswith('.csv')
EndsWithCsv(u) == u.ext = ".csv"

\* no file is too large
FileTooLargeNever(size) == FALSE

\* file_size > settings.MAX_UPLOAD_SIZE
FileTooLarge(size) == size > MAX_UPLOAD_SIZE

\* df.empty: no rows or no columns
DfEmpty(t) == t.rows = 0 \/ t.cols = 0

\* total_cells > settings.MAX_DATAFRAME_SIZE
TooManyCells(t) == t.rows * t.cols > MAX_DATAFRAME_SIZE

Created(u) == [kind |-> "created", status |-> 200, rows |-> u.parsed.rows,
               columns |-> u.parsed.cols]

\* create_session: the response, in the order of the handler's checks;
\* insertFails is a failing insert_one
create_session(u, insertFails) ==
    IF ~EndsWithCsv(u) THEN HttpError(400)
    ELSE IF FileTooLarge(u.size) THEN HttpError(413)
    ELSE IF u.size = 0 THEN HttpError(400)
    ELSE IF u.parsed.kind \in {"EmptyDataError", "ParserError"} THEN HttpError(400)
    ELSE IF u.parsed.kind = "Exception" THEN HttpError(500)
    ELSE IF DfEmpty(u.parsed) THEN HttpError(400)
    ELSE IF TooManyCells(u.parsed) THEN HttpError(413)
    ELSE IF insertFails THEN HttpError(500)
    ELSE Created(u)

\* a caller uploads a file: create_session up to its await. A file that
\* fails a check is answered at once; for an accepted one uuid4 gives an
\* unused id, datetime.now() the created_at, and insert_one is awaited
Upload(u) ==
    LET r == create_session(u, FALSE)
    IN  IF r.status = 200
        THEN /\ Cardinality(inflight) < MaxInflight
             /\ \E s \in DOMAIN store \ created :
                    /\ created' = created \cup {s}
                    /\ inflight' = inflight \cup
                          {[op |-> "insert_one", sid |-> s, upload |-> u,
                            doc |-> NewSession(Dataset(u.stem, u.parsed.rows,
                                                       u.parsed.cols),
                                               clock + 1)]}
             /\ clock' = clock + 1
             /\ UNCHANGED <<arg, ret, store, appended, ctxOut, validatorVars, streamVars, execVars, analyzeVars>>
        ELSE /\ arg' = [op |-> "create_session", upload |-> u]
             /\ ret' = r
             /\ UNCHANGED <<managerVars, validatorVars, streamVars, execVars, analyzeVars>>

\* the insert_one of an upload is applied or fails, and create_session
\* answers
UploadInserted(x, insertFails) ==
    /\ x \in inflight
    /\ x.op = "insert_one"
    /\ arg' = [op |-> "create_session", upload |-> x.upload]
    /\ ret' = create_session(x.upload, insertFails)
    /\ store' = IF insertFails THEN store ELSE [store EXCEPT ![x.sid] = x.doc]
    /\ inflight' = inflight \ {x}
    /\ UNCHANGED <<created, clock, appended, ctxOut, validatorVars, streamVars, execVars, analyzeVars>>

SmallSize == 40
LargeSide == 10000
Extensions == {".csv", ".CSV", ".txt"}
Sizes == {0, SmallSize, MAX_UPLOAD_SIZE, MAX_UPLOAD_SIZE + 1}

\* what read_csv can make of a file of the given size
Parses(size) ==
    IF size = 0 THEN {EmptyDataError}
    ELSE {Table(r, c) : r \in {0, 1, 3}, c \in {1, 2}}
         \cup {EmptyDataError, ParserError, OtherError}
         \cup (IF size >= MAX_UPLOAD_SIZE
               THEN {Table(LargeSide, LargeSide), Table(LargeSide + 1, LargeSide)}
               ELSE {})

Uploads ==
    {u \in [stem : {"data"}, ext : Extensions, size : Sizes,
            parsed : Parses(MAX_UPLOAD_SIZE)] : u.parsed \in Parses(u.size)}

\* the ids uuid4 gives to the uploads
UploadIds == {"s1", "s2"}

NextCreate ==
    \/ \E u \in Uploads : Upload(u)
    \/ \E x \in inflight, f \in BOOLEAN : UploadInserted(x, f)
    \/ \E s \in UploadIds : DeleteSession(s)

InitCreate ==
    /\ store = [s \in UploadIds |-> NoSession]
    /\ created = {}
    /\ clock = 0
    /\ appended = [s \in UploadIds |-> <<>>]
    /\ ctxOut = NoCall
    /\ inflight = {}
    /\ ValidatorIdle /\ ExecIdle /\ AnalyzeIdle /\ CallIdle /\ StreamIdle

SpecCreate == InitCreate /\ [][NextCreate]_vars

(***************************************************************************)
(* models.py: the Query schema                                             *)
(***************************************************************************)
MIN_LENGTH == 1
MAX_LENGTH == 1000

\* a string: leading whitespace, a body that neither starts nor ends with
\* whitespace, trailing whitespace (lengths)
Text(lead, body, trail) == [lead |-> lead, body |-> body, trail |-> trail]
TextLength(t) == t.lead + t.body + t.trail

\* str.strip()
Strip(t) == Text(0, t.body, 0)

ValidationError == [kind |-> "failure", status |-> 422]

\* the constraints of Field(...), checked on the string as it was sent
FieldConstraints(t) == MIN_LENGTH <= TextLength(t) /\ TextLength(t) <= MAX_LENGTH

\* Query(question=t): the field's constraints, then clean_question
Query(t) ==
    IF ~FieldConstraints(t) THEN ValidationError
    ELSE [kind |-> "query", question |-> Strip(t)]

\* a request body reaches the schema in front of analyze_data
ParseQuery(t) ==
    /\ arg' = [op |-> "Query", question |-> t]
    /\ ret' = Query(t)
    /\ UNCHANGED <<managerVars, validatorVars, streamVars, execVars, analyzeVars>>

Texts ==
    {Text(l, b, t) : l \in {0, 1, 2, MAX_LENGTH, MAX_LENGTH + 1},
                     b \in {0, 1, 2, MAX_LENGTH - 1, MAX_LENGTH, MAX_LENGTH + 1},
                     t \in {0, 1, 2, MAX_LENGTH}}

NextQuery == \E t \in Texts : ParseQuery(t)

InitQuery == ManagerIdle /\ ValidatorIdle /\ ExecIdle /\ AnalyzeIdle /\ CallIdle /\ StreamIdle

SpecQuery == InitQuery /\ [][NextQuery]_vars

(***************************************************************************)
(* list_sessions over collections of up to LIST_LIMIT + 2 sessions         *)
(***************************************************************************)
\* a collection of n sessions, session i created at time i
Collection(n) == [i \in 1..n |-> NewSession(Csv1, i)]

Collections ==
    {Collection(n) : n \in {0, 1, LIST_LIMIT - 1, LIST_LIMIT, LIST_LIMIT + 1,
                            LIST_LIMIT + 2}}

Limits == {-(LIST_LIMIT + 1), -1, 0, 1, LIST_LIMIT - 1, LIST_LIMIT,
           LIST_LIMIT + 1, 10 * LIST_LIMIT}
Skips == {-1, 0, 1, LIST_LIMIT, LIST_LIMIT + 1}

\* the oldest and the newest session of a collection
Ends(st) == {i \in DOMAIN st : i = 1 \/ i = Len(st)}

\* list_sessions, and delete_session calls that run beside it
NextList ==
    \/ \E limit \in Limits, skip \in Skips : ListSessions(limit, skip)
    \/ ListMore
    \/ ListCounted
    \/ \E s \in Ends(store) : DeleteSession(s)

InitList ==
    /\ store \in Collections
    /\ created = DOMAIN store
    /\ clock = Cardinality(DOMAIN store)
    /\ appended = [i \in DOMAIN store |-> <<>>]
    /\ ctxOut = NoCall
    /\ inflight = {}
    /\ ValidatorIdle /\ ExecIdle /\ AnalyzeIdle /\ CallIdle /\ StreamIdle

SpecList == InitList /\ [][NextList]_vars

(***************************************************************************)
(* Two scripts in the pool workers and the standard streams                *)
(***************************************************************************)
MaxPrints == 1

\* a short text the script printed: who wrote each piece of it
PrintedText(pieces) == [kind |-> "text", content |-> pieces]
NoneValue == [kind |-> "None"]

\* redirect_stdout(output_buffer).__enter__ is two statements, and the other
\* worker thread can run between them; the first,
\* self._old_targets.append(sys.stdout), saves the stream bound now
SaveStdout(c) ==
    /\ c \in running
    /\ run[c].pc = "start"
    /\ run' = [run EXCEPT ![c] =
                 [run[c] EXCEPT !.pc = "stdout saved", !.old_stdout = sys.stdout]]
    /\ UNCHANGED <<sys, realOut, validatorVars, callVars, managerVars, execVars, analyzeVars>>

\* the second, setattr(sys, "stdout", output_buffer), rebinds it
BindStdout(c) ==
    /\ c \in running
    /\ run[c].pc = "stdout saved"
    /\ run' = [run EXCEPT ![c] = [run[c] EXCEPT !.pc = "stdout redirected"]]
    /\ sys' = [sys EXCEPT !.stdout = OutputBuffer(c)]
    /\ UNCHANGED <<realOut, validatorVars, callVars, managerVars, execVars, analyzeVars>>

\* redirect_stderr(error_buffer).__enter__: the stream is saved
SaveStderr(c) ==
    /\ c \in running
    /\ run[c].pc = "stdout redirected"
    /\ run' = [run EXCEPT ![c] =
                 [run[c] EXCEPT !.pc = "stderr saved", !.old_stderr = sys.stderr]]
    /\ UNCHANGED <<sys, realOut, validatorVars, callVars, managerVars, execVars, analyzeVars>>

\* ... and rebound
BindStderr(c) ==
    /\ c \in running
    /\ run[c].pc = "stderr saved"
    /\ run' = [run EXCEPT ![c] = [run[c] EXCEPT !.pc = "exec"]]
    /\ sys' = [sys EXCEPT !.stderr = ErrorBuffer(c)]
    /\ UNCHANGED <<realOut, validatorVars, callVars, managerVars, execVars, analyzeVars>>

\* the script calls print: print takes the stream sys.stdout is bound to now
\* and converts its argument to text, which runs Python code for an object
\* such as a DataFrame, so the other worker thread can run before the write
PrintReads(c) ==
    /\ c \in running
    /\ run[c].pc = "exec"
    /\ run[c].prints < MaxPrints
    /\ run' = [run EXCEPT ![c] =
                 [run[c] EXCEPT !.pc = "printing", !.file = sys.stdout]]
    /\ UNCHANGED <<sys, realOut, validatorVars, callVars, managerVars, execVars, analyzeVars>>

\* print writes the text to the stream it took, whatever sys.stdout is by now
\* and whether or not the call that owns the buffer still runs
PrintWrites(c) ==
    /\ c \in running
    /\ run[c].pc = "printing"
    /\ IF run[c].file = RealStdout
       THEN /\ realOut' = Append(realOut, c)
            /\ run' = [run EXCEPT ![c] =
                         [run[c] EXCEPT !.pc = "exec", !.prints = @ + 1]]
       ELSE /\ realOut' = realOut
            /\ run' = [d \in CallIds |->
                         [run[d] EXCEPT
                            !.pc = IF d = c THEN "exec" ELSE @,
                            !.prints = IF d = c THEN @ + 1 ELSE @,
                            !.output = IF run[c].file = OutputBuffer(d)
                                       THEN Append(@, c) ELSE @]]
    /\ UNCHANGED <<sys, validatorVars, callVars, managerVars, execVars, analyzeVars>>

\* exec(code, namespace) ends: with result None, with a result, or by raising
Endings == {"None", "number", "raises"}

\* ... and redirect_stderr.__exit__ puts back what it saved
ExitStderr(c, ending) ==
    /\ c \in running
    /\ run[c].pc = "exec"
    /\ ending \in Endings
    /\ run' = [run EXCEPT ![c] =
                 [run[c] EXCEPT !.pc = "stderr restored", !.ending = ending]]
    /\ sys' = [sys EXCEPT !.stderr = run[c].old_stderr]
    /\ UNCHANGED <<realOut, validatorVars, callVars, managerVars, execVars, analyzeVars>>

\* redirect_stdout.__exit__ puts back what it saved
ExitStdout(c) ==
    /\ c \in running
    /\ run[c].pc = "stderr restored"
    /\ run' = [run EXCEPT ![c] = [run[c] EXCEPT !.pc = "streams restored"]]
    /\ sys' = [sys EXCEPT !.stdout = run[c].old_stdout]
    /\ UNCHANGED <<realOut, validatorVars, callVars, managerVars, execVars, analyzeVars>>

\* what run_code returns or raises after the with block
RunOutcome(c) ==
    IF run[c].ending = "raises" THEN [kind |-> "exception", exc |-> NameErrorExc]
    ELSE IF run[c].ending = "number"
    THEN [kind |-> "value", value |-> [kind |-> "number"]]
    ELSE IF run[c].output # <<>>
    THEN [kind |-> "value", value |-> PrintedText(run[c].output)]
    ELSE [kind |-> "value", value |-> NoneValue]

\* run_code leaves its worker
RunReturns(c) ==
    /\ run[c].pc = "streams restored"
    /\ WorkerFinish(c, RunOutcome(c))
    /\ run' = [run EXCEPT ![c] = [run[c] EXCEPT !.pc = "finished"]]
    /\ UNCHANGED <<sys, realOut, validatorVars, callVars, managerVars, analyzeVars>>

\* a caller calls execute_code_safely with a script that passes validation
StreamCall(c) ==
    /\ c \in NewCalls
    /\ ExecStart(c, Csv1, ValidScript, NoTimeout, FALSE)
    /\ UNCHANGED <<validatorVars, streamVars, callVars, managerVars, analyzeVars>>

NextStreams ==
    \/ \E c \in NewCalls : StreamCall(c)
    \/ ExecWorkerTake
    \/ \E c \in NewCalls : SaveStdout(c)
    \/ \E c \in NewCalls : BindStdout(c)
    \/ \E c \in NewCalls : SaveStderr(c)
    \/ \E c \in NewCalls : BindStderr(c)
    \/ \E c \in NewCalls : PrintReads(c)
    \/ \E c \in NewCalls : PrintWrites(c)
    \/ \E c \in NewCalls, e \in Endings : ExitStderr(c, e)
    \/ \E c \in NewCalls : ExitStdout(c)
    \/ \E c \in NewCalls : RunReturns(c)
    \/ \E c \in NewCalls : ExecReturn(c)
    \/ \E c \in NewCalls : ExecDeadline(c)

InitStreams == ManagerIdle /\ ValidatorIdle /\ ExecIdle /\ AnalyzeIdle /\ CallIdle /\ StreamIdle

SpecStreams == InitStreams /\ [][NextStreams]_vars

(***************************************************************************)
(* One analyze request beside direct calls of execute_code_safely          *)
(***************************************************************************)
DirectCalls == NewCalls \ FirstReq

\* a caller other than analyze_data calls execute_code_safely
DirectCall(c, s) ==
    /\ c \in DirectCalls
    /\ ExecStart(c, Csv1, s, NoTimeout, FALSE)
    /\ UNCHANGED <<validatorVars, streamVars, callVars, managerVars, analyzeVars>>

NextGuard ==
    \/ \E r \in FirstReq, s \in SessionIds, q \in Questions : AnalyzeFind(r, s, q)
    \/ \E r \in FirstReq : AnalyzeContext(r, FALSE)
    \/ \E r \in FirstReq : AnalyzeGenerationFails(r)
    \/ \E r \in FirstReq, s \in GenScripts : AnalyzeGenerated(r, s, FALSE)
    \/ \E r \in FirstReq : AnalyzeRegenerationFails(r)
    \/ \E r \in FirstReq, s \in GenScripts : AnalyzeRegenerated(r, s, FALSE)
    \/ AnalyzeWorkerTake
    \/ \E c \in NewCalls, o \in AnalyzeOutcomes : AnalyzeWorkerFinish(c, o)
    \/ \E r \in FirstReq : AnalyzeExecuted(r)
    \/ \E r \in FirstReq : AnalyzeTimedOut(r)
    \/ \E r \in FirstReq, f \in BOOLEAN : AnalyzeInterpreted(r, f)
    \/ \E r \in FirstReq : AnalyzeAppend(r)
    \/ \E r \in FirstReq : AnalyzeAppendFaults(r)
    \/ \E c \in DirectCalls, s \in GenScripts : DirectCall(c, s)
    \/ \E c \in DirectCalls : ExecReturn(c)
    \/ \E c \in DirectCalls : ExecDeadline(c)

SpecGuard == InitAnalyze /\ [][NextGuard]_vars

(***************************************************************************)
(* models.py: the Session schema                                           *)
(***************************************************************************)
\* the fields of Session that carry the counts, in the order of declaration;
\* the schema validates them in this order, whatever the order of the
\* keyword arguments
SessionFields == <<"row_count", "column_count">>

\* values: the fields validated before the one at position k
ValuesBefore(input, k) ==
    [f \in {SessionFields[j] : j \in 1..(k - 1)} |-> input[f]]

\* validate_dataframe_size(cls, v, values): TRUE when it raises ValueError
DataframeSizeRaises(v, values) ==
    IF "column_count" \in DOMAIN values
    THEN v * values["column_count"] > MAX_DATAFRAME_SIZE
    ELSE FALSE

\* the @validator of each field
FieldRaises(input, k) ==
    IF SessionFields[k] = "row_count"
    THEN DataframeSizeRaises(input[SessionFields[k]], ValuesBefore(input, k))
    ELSE FALSE

\* Session(...): the record, or the validation error
Session(input) ==
    IF \E k \in 1..Len(SessionFields) : FieldRaises(input, k)
    THEN ValidationError
    ELSE [kind |-> "Session", row_count |-> input.row_count,
          column_count |-> input.column_count]

\* a caller constructs a Session, naming the counts in some order
ConstructSession(rows, cols, order) ==
    /\ arg' = [op |-> "Session", row_count |-> rows, column_count |-> cols,
               supplied |-> order]
    /\ ret' = Session([row_count |-> rows, column_count |-> cols])
    /\ UNCHANGED <<managerVars, validatorVars, streamVars, execVars, analyzeVars>>

\* pairs of counts around the cap, each product within TLC's integers
SideCounts == {0, 1, 3, LargeSide - 1, LargeSide, LargeSide + 1}
CapCounts == {MAX_DATAFRAME_SIZE - 1, MAX_DATAFRAME_SIZE, MAX_DATAFRAME_SIZE + 1}
SessionCounts ==
    (SideCounts \X SideCounts) \cup (CapCounts \X {0, 1, 3}) \cup ({0, 1, 3} \X CapCounts)
SuppliedOrders == {<<"row_count", "column_count">>, <<"column_count", "row_count">>}

NextSession ==
    \E n \in SessionCounts, o \in SuppliedOrders : ConstructSession(n[1], n[2], o)

InitSession ==
    ManagerIdle /\ ValidatorIdle /\ ExecIdle /\ AnalyzeIdle /\ CallIdle /\ StreamIdle

SpecSession == InitSession /\ [][NextSession]_vars

(***************************************************************************)
(* _summarize_result over the kinds of result                              *)
(***************************************************************************)
MaxNumber == 24

PyInt(n) == [kind |-> "int", value |-> n]
PyFloat(n) == [kind |-> "float", value |-> n]
PyBool(b) == [kind |-> "bool", truth |-> b]

Results ==
    {NoOutput}
    \cup {PyInt(n) : n \in -MaxNumber..MaxNumber}
    \cup {PyFloat(n) : n \in -MaxNumber..MaxNumber}
    \cup {PyBool(b) : b \in BOOLEAN}
    \cup {[kind |-> "str"], [kind |-> "list"], [kind |-> "dict"], [kind |-> "set"]}
    \cup {[kind |-> "text"], [kind |-> "text..."]}
    \cup {[type |-> "series", length |-> 3], [type |-> "array", shape |-> <<3>>],
          format_and_truncate_result(FrameOfRows(MAX_SAMPLE_ROWS + 1)).output}

\* a caller summarises a result
Summarize(result) ==
    /\ arg' = [op |-> "_summarize_result", result |-> result]
    /\ ret' = [kind |-> "summary", text |-> SummarizeResult(result)]
    /\ UNCHANGED <<managerVars, validatorVars, streamVars, execVars, analyzeVars>>

NextSummary == \E result \in Results : Summarize(result)

InitSummary ==
    ManagerIdle /\ ValidatorIdle /\ ExecIdle /\ AnalyzeIdle /\ CallIdle /\ StreamIdle

SpecSummary == InitSummary /\ [][NextSummary]_vars

(***************************************************************************)
(* Scripts that raise                                                      *)
(***************************************************************************)
\* exceptions by what str(e) says: the text of a KeyError is the quoted key,
\* the texts of the others do not name their class either
TypeErrorExc == [etype |-> "TypeError", mentions |-> {}]
ValueErrorExc == [etype |-> "ValueError", mentions |-> {}]
AttributeErrorExc == [etype |-> "AttributeError", mentions |-> {}]
ZeroDivisionExc == [etype |-> "ZeroDivisionError", mentions |-> {}]

\* raise Exception(text), with a text that holds the words given
TextExc(words) == [etype |-> "Exception", mentions |-> words]

Failures ==
    ScriptExceptions
    \cup {TypeErrorExc, ValueErrorExc, AttributeErrorExc, ZeroDivisionExc}
    \cup {TextExc({w}) : w \in {"KeyError", "TypeError", "ValueError", "AttributeError"}}

NextFailures ==
    \/ \E c \in NewCalls, o \in Overrides : ExecCall(c, ValidScript, o, FALSE)
    \/ ExecWorkerTake
    \/ \E c \in CallIds, e \in Failures :
           ExecWorkerFinish(c, [kind |-> "exception", exc |-> e])
    \/ \E c \in CallIds : ExecReturn(c)
    \/ \E c \in CallIds : ExecDeadline(c)

SpecFailures == InitExec /\ [][NextFailures]_vars

(***************************************************************************)
(* The results of execute_code_safely and what analyze_data makes of them  *)
(***************************************************************************)
\* Exception(), AssertionError(), KeyError(): no arguments, so str(e) is ''
SilentExc == [etype |-> "Exception", mentions |-> {}, args |-> <<>>]

\* an object whose __str__ raises exc
Unprintable(exc) == [kind |-> "unprintable", raises |-> exc]

ResultOutcomes ==
    AnalyzeOutcomes
    \cup {[kind |-> "value", value |-> v] :
              v \in {Unprintable(SilentExc), [kind |-> "unprintable"],
                     FrameOfRows(MAX_SAMPLE_ROWS + 1)}}
    \cup {[kind |-> "exception", exc |-> e] : e \in {KeyErrorExc, SilentExc}}

NextResults ==
    \/ \E r \in FirstReq, s \in SessionIds, q \in Questions : AnalyzeFind(r, s, q)
    \/ \E r \in FirstReq : AnalyzeContext(r, FALSE)
    \/ \E r \in FirstReq : AnalyzeGenerationFails(r)
    \/ \E r \in FirstReq, s \in GenScripts : AnalyzeGenerated(r, s, FALSE)
    \/ \E r \in FirstReq : AnalyzeRegenerationFails(r)
    \/ \E r \in FirstReq, s \in GenScripts : AnalyzeRegenerated(r, s, FALSE)
    \/ AnalyzeWorkerTake
    \/ \E c \in NewCalls, o \in ResultOutcomes : AnalyzeWorkerFinish(c, o)
    \/ \E r \in FirstReq : AnalyzeExecuted(r)
    \/ \E r \in FirstReq : AnalyzeTimedOut(r)
    \/ \E r \in FirstReq, f \in BOOLEAN : AnalyzeInterpreted(r, f)
    \/ \E r \in FirstReq : AnalyzeAppend(r)
    \/ \E r \in FirstReq : AnalyzeAppendFaults(r)
    \/ \E c \in DirectCalls, s \in GenScripts : DirectCall(c, s)
    \/ \E c \in DirectCalls : ExecReturn(c)
    \/ \E c \in DirectCalls : ExecDeadline(c)

SpecResults == InitAnalyze /\ [][NextResults]_vars

\* The manager at a moment when datetime.now() has been read
\* 2 * (MAX_CONVERSATION_HISTORY - 1) times: over an empty store, or over a
\* session that holds the interactions of MAX_CONVERSATION_HISTORY - 1
\* earlier calls.
ManagerStart ==
    /\ clock = 2 * (MAX_CONVERSATION_HISTORY - 1)
    /\ \E h \in EarlierLengths :
          IF h = 0
          THEN /\ store = [s \in SessionIds |-> NoSession]
               /\ appended = [s \in SessionIds |-> <<>>]
               /\ created = {}
          ELSE /\ store = [s \in SessionIds |->
                             [NewSession(Csv1, 0) EXCEPT
                                 !.conversation_history = EarlierHistory(s, h)]]
               /\ appended = [s \in SessionIds |-> EarlierHistory(s, h)]
               /\ created = SessionIds
    /\ ctxOut = NoCall
    /\ inflight = {}

Init == ManagerStart /\ ValidatorIdle /\ ExecIdle /\ AnalyzeIdle /\ CallIdle /\ StreamIdle

Next ==
    \/ \E s \in SessionIds, d \in Datasets : CreateSession(s, d)
    \/ \E s \in SessionIds : DeleteSession(s)
    \/ \E x \in inflight : InsertApplied(x)
    \/ \E s \in RequestIds, p \in Payloads : AddInteraction(s, p)
    \/ \E x \in inflight : PushApplied(x)
    \/ \E s \in SessionIds : ClearHistory(s)
    \/ \E s \in RequestIds, k \in Lookbacks, f \in BOOLEAN : GetContext(s, k, f)
    \/ DropContext

Spec == Init /\ [][Next]_vars

NextValidate == ValidateScript

InitValidate ==
    ValidatorStart /\ ManagerIdle /\ ExecIdle /\ AnalyzeIdle /\ CallIdle /\ StreamIdle

SpecValidate == InitValidate /\ [][NextValidate]_vars

(***************************************************************************)
(* Properties of the conversation manager                                  *)
(***************************************************************************)
\* the last n elements of a sequence, oldest first
LastN(seq, n) ==
    IF n <= 0 THEN <<>>
    ELSE [i \in 1..Min(n, Len(seq)) |-> seq[Len(seq) - Min(n, Len(seq)) + i]]

\* C1: after n add_interaction calls on one session its stored history has
\* length min(n, N) and is the min(n, N) most recently appended interactions
\* in append order (N = MAX_CONVERSATION_HISTORY).
C1_HistoryIsLastN ==
    \A s \in SessionIds :
        store[s].exists =>
            /\ Len(store[s].conversation_history)
                 = Min(Len(appended[s]), MAX_CONVERSATION_HISTORY)
            /\ store[s].conversation_history
                 = LastN(appended[s], MAX_CONVERSATION_HISTORY)

\* twelve calls on one session, two of the last ones applied in the order
\* opposite to that of their composition: the history holds the last ten
C1_Witness ==
    \E s \in SessionIds :
        /\ store[s].exists
        /\ Len(appended[s]) = 12
        /\ Len(store[s].conversation_history) = 10
        /\ store[s].conversation_history[1] = appended[s][3]
        /\ \E i \in 1..11 : appended[s][i].timestamp > appended[s][i + 1].timestamp

\* The lookback the claim reads: the caller's value whenever one is given.
ClaimedLookback(lookback) ==
    IF lookback.given THEN lookback.value ELSE CONTEXT_LOOKBACK

\* C9: get_conversation_context returns the empty list for an absent session,
\* an empty history or a read fault, and otherwise exactly the last
\* min(K, len(history)) entries, oldest first, K being the caller's lookback
\* when given (any integer, 0 and negatives included) and CONTEXT_LOOKBACK
\* otherwise; never more than K entries.
C9_ContextIsLastK ==
    ctxOut.called =>
        LET K == ClaimedLookback(ctxOut.lookback)
            present == ctxOut.sid \in SessionIds /\ store[ctxOut.sid].exists
            history == IF present THEN store[ctxOut.sid].conversation_history
                       ELSE <<>>
            want == LastN(history, K)
        IN  /\ (ctxOut.fault \/ ~present \/ history = <<>>) => ctxOut.out = <<>>
            /\ ~ctxOut.fault =>
                 ctxOut.out = [i \in 1..Len(want) |-> ConversationContext(want[i])]
            /\ Len(ctxOut.out) <= Max(K, 0)

(***************************************************************************)
(* Properties of the executor                                              *)
(***************************************************************************)
\* The timeout the claim reads: the caller's value whenever one is given.
ClaimedTimeout(override) ==
    IF override.given THEN override.value ELSE MAX_EXECUTION_TIMEOUT

\* C7: a call whose script outlasts the timeout in effect (the caller's
\* override when supplied, MAX_EXECUTION_TIMEOUT otherwise) returns
\* success = false, no output, an error naming the timeout, and
\* execution_time equal to that timeout, whether the script was in a worker
\* or still in the queue.
C7_TimeoutResult ==
    \A c \in NewCalls :
        (call[c].pc = "returned" /\ call[c].timedOut) =>
            call[c].result = TimeoutFailure(ClaimedTimeout(call[c].override))

\* C8: execute_code_safely always ends by returning an ExecutionResult and
\* never by raising, whatever the script, the copy of the dataset or the
\* formatting of the result does.
C8_NeverRaises == \A c \in CallIds : call[c].pc # "raised"

(***************************************************************************)
(* Properties of the validator                                             *)
(***************************************************************************)
RECURSIVE Leaves(_)
\* the statements of a tree that hold no other statement, in visiting order
Leaves(body) ==
    IF body = <<>> THEN <<>>
    ELSE (IF Head(body).k = "FunctionDef" THEN Leaves(Head(body).body)
          ELSE <<Head(body)>>) \o Leaves(Tail(body))

\* the modules a statement imports
ImportedModules(s) ==
    CASE s.k = "Import" -> {s.names[i] : i \in 1..Len(s.names)}
      [] s.k = "ImportFrom" -> IF s.module = <<>> THEN {} ELSE {s.module}
      [] OTHER -> {}

ForbiddenModules(s) == {m \in ImportedModules(s) : m[1] \in FORBIDDEN_IMPORTS}

HasForbiddenImport(body) ==
    \E i \in 1..Len(Leaves(body)) : ForbiddenModules(Leaves(body)[i]) # {}

ImportMessages == {"Forbidden import: ", "Forbidden import: from "}

\* the first forbidden import comes before every other rejected statement
ForbiddenImportComesFirst(body) ==
    \E i \in 1..Len(Leaves(body)) :
        /\ ForbiddenModules(Leaves(body)[i]) # {}
        /\ \A j \in 1..(i - 1) : VisitStmt(Leaves(body)[j]) = NoMessage

Validated == verdict # NotRun

\* C10 as stated: every script holding an import of a forbidden module, at
\* any depth, fails validation with a message naming the imported module
\* (read here on the scripts within the length limit only).
C10_MessageAlwaysNamesImport ==
    (Validated /\ script.parses /\ ~script.blank /\ script.chars <= MAX_CODE_LENGTH
     /\ HasForbiddenImport(script.body)) =>
        /\ ~verdict.valid
        /\ verdict.message.text \in ImportMessages
        /\ \E i \in 1..Len(Leaves(script.body)) :
               verdict.message.arg \in ForbiddenModules(Leaves(script.body)[i])

\* C10, amended: such a script always fails validation; the message names the
\* imported module when the script is within the length limit and no other
\* rejected statement precedes the import in visiting order; and the import
\* rule rejects only modules whose first segment is in the forbidden set.
C10_FirstViolationNamesImport ==
    Validated =>
        /\ (script.parses /\ ~script.blank /\ HasForbiddenImport(script.body))
             => ~verdict.valid
        /\ (script.parses /\ ~script.blank /\ script.chars <= MAX_CODE_LENGTH
            /\ ForbiddenImportComesFirst(script.body))
             => /\ verdict.message.text \in ImportMessages
                /\ \E i \in 1..Len(Leaves(script.body)) :
                       verdict.message.arg \in ForbiddenModules(Leaves(script.body)[i])
        /\ verdict.message.text \in ImportMessages
             => verdict.message.arg[1] \in FORBIDDEN_IMPORTS
        /\ (script.parses /\ ~script.blank /\ script.chars <= MAX_CODE_LENGTH
            /\ ~HasForbiddenImport(script.body))
             => verdict.message.text \notin ImportMessages

\* a nested from-import of a dotted submodule is rejected by name
C10_Witness ==
    /\ Validated
    /\ \E i \in 1..Len(script.body) :
           /\ script.body[i].k = "FunctionDef"
           /\ script.body[i].body[1] = ImportFrom(<<"os", "path">>)
    /\ verdict.message = Msg("Forbidden import: from ", <<"os", "path">>)

\* a target that binds the name result: the name itself or a tuple holding it
BindsResult(t) ==
    \/ IsResultName(t)
    \/ t.e = "Tuple" /\ \E i \in 1..Len(t.elts) : IsResultName(t.elts[i])

\* the statement gives result a value by a plain or an annotated assignment
AssignsResultValue(s) ==
    CASE s.k = "Assign" -> \E i \in 1..Len(s.targets) : BindsResult(s.targets[i])
      [] s.k = "AnnAssign" -> IsResultName(s.target) /\ s.hasValue
      [] OTHER -> FALSE

\* C11: a script that parses and holds no security violation passes
\* validate_code exactly when a plain or annotated assignment somewhere in its
\* tree gives result a value; otherwise the message demands the assignment.
C11_PassesIffAssignsResult ==
    (Validated /\ script.parses /\ ~script.blank /\ script.chars <= MAX_CODE_LENGTH
     /\ VisitBody(script.body) = NoMessage) =>
        /\ verdict.valid <=>
               \E i \in 1..Len(Leaves(script.body)) :
                   AssignsResultValue(Leaves(script.body)[i])
        /\ ~verdict.valid =>
               verdict.message = Msg("Code must assign a value to variable 'result'", <<>>)


(***************************************************************************)
(* analyze_data                                                            *)
(***************************************************************************)
LastCode(rq) == rq.codes[Len(rq.codes)]
DoneOn(s) == {r \in Reqs : req[r].pc = "done" /\ req[r].sid = s}
Known(sid) == sid \in SessionIds /\ store[sid].exists

\* C2: whatever the interleaving of the analyze requests on one session that
\* began with h interactions, once k of them have appended the history has
\* min(h + k, N) entries, no entry twice, every entry whole, and it is the
\* last N of everything appended, in the order the updates were applied.
C2_ConcurrentAppendsKept ==
    \A s \in SessionIds :
        store[s].exists =>
            LET hist == store[s].conversation_history
                log == appended[s]
                k == Cardinality(DoneOn(s))
            IN  \E h \in EarlierLengths :
                    /\ Len(log) = h + k
                    /\ SubSeq(log, 1, h) = EarlierHistory(s, h)
                    /\ \A r \in DoneOn(s) :
                           \E i \in (h + 1)..(h + k) : log[i] = req[r].interaction
                    /\ Len(hist) = Min(h + k, MAX_CONVERSATION_HISTORY)
                    /\ hist = LastN(log, MAX_CONVERSATION_HISTORY)
                    /\ \A i, j \in 1..Len(hist) : i # j => hist[i].id # hist[j].id

\* two requests overlapped (the one that composed its interaction first
\* appended it last) and the older entry was trimmed
C2_Witness ==
    \E s \in SessionIds :
        /\ store[s].exists
        /\ Cardinality(DoneOn(s)) >= 2
        /\ Len(appended[s]) > MAX_CONVERSATION_HISTORY
        /\ Len(store[s].conversation_history) = MAX_CONVERSATION_HISTORY
        /\ \E i \in 1..(Len(appended[s]) - 1) :
               appended[s][i].timestamp > appended[s][i + 1].timestamp

\* C3: a first script that fails validation is followed by exactly one more
\* generation call, whose prompt carries the first validation message; a
\* second failure ends the request with 400 and the second message, nothing
\* is executed and no third generation call is made; a first script that
\* passes is followed by no further generation call.
C3_OneRegeneration ==
    \A r \in Reqs :
        req[r].pc # "new" =>
            LET rq == req[r]
            IN  /\ Len(rq.prompts) <= 2
                /\ Len(rq.codes) <= Len(rq.prompts)
                /\ Len(rq.prompts) >= 1 => rq.prompts[1].failure = NoMessage
                /\ (Len(rq.codes) >= 1 /\ validate_code(rq.codes[1]).valid) =>
                       Len(rq.prompts) = 1
                /\ (Len(rq.codes) >= 1 /\ ~validate_code(rq.codes[1]).valid) =>
                       /\ Len(rq.prompts) = 2
                       /\ rq.prompts[2].failure = validate_code(rq.codes[1]).message
                       /\ rq.prompts[2].failure # NoMessage
                       /\ rq.prompts[2].question = rq.question
                /\ (Len(rq.codes) = 2 /\ ~validate_code(rq.codes[2]).valid) =>
                       /\ rq.pc = "failed"
                       /\ rq.response.status = 400
                       /\ rq.response.message = validate_code(rq.codes[2]).message
                       /\ call[r].pc = "idle"
                       /\ future[r] = NoFuture
                /\ call[r].pc # "idle" =>
                       /\ call[r].script = LastCode(rq)
                       /\ validate_code(call[r].script).valid

\* a request ended with 400 after two rejected scripts whose messages differ
C3_Witness ==
    \E r \in Reqs :
        /\ req[r].pc = "failed"
        /\ req[r].response.status = 400
        /\ Len(req[r].codes) = 2
        /\ Len(req[r].prompts) = 2
        /\ req[r].prompts[2].failure # req[r].response.message

\* C4: the step that looks up a session id the store does not hold ends the
\* request with 404 and changes no stored session; the request has made no
\* completion call, nothing is submitted for execution, and nothing happens
\* for it afterwards.
C4_UnknownSessionNotFound ==
    [][\A r \in Reqs :
          /\ (req[r].pc = "new" /\ req'[r].pc # "new" /\ ~Known(req'[r].sid)) =>
                 /\ req'[r].pc = "failed"
                 /\ req'[r].response.status = 404
                 /\ req'[r].prompts = <<>>
                 /\ req'[r].codes = <<>>
                 /\ req'[r].pushes = 0
                 /\ store' = store
                 /\ <<call, future, queue, running>>' = <<call, future, queue, running>>
          /\ (req[r].pc = "failed" /\ req[r].response.status = 404) =>
                 /\ req'[r] = req[r]
                 /\ call'[r] = call[r]
                 /\ future'[r] = future[r]
      ]_vars

\* an unknown id was answered 404 while the stored session had a history
\* another request appended to
C4_Witness ==
    \E r, q \in Reqs :
        /\ req[r].pc = "failed"
        /\ req[r].response.status = 404
        /\ req[r].sid = UnknownId
        /\ call[r].pc = "idle"
        /\ req[q].pc = "done"
        /\ store[req[q].sid].exists
        /\ store[req[q].sid].conversation_history # <<>>

\* C5 as written: every finished analyze call that found its session has
\* appended exactly one interaction.
C5_ExactlyOneInteraction ==
    \A r \in Reqs :
        (req[r].pc \in {"done", "failed"} /\ req[r].session.exists) =>
            req[r].pushes = 1

\* C5, amended: no analyze call appends more than one interaction; a call
\* appends one exactly when it is answered with a response object, which
\* needs a script that passed validation and an execution result (success,
\* failure or timeout); a call that ends with 404, 400 or 500 has appended
\* none and its interaction is in no history.
C5_OneInteractionWhenAnswered ==
    \A r \in Reqs :
        req[r].pc # "new" =>
            LET rq == req[r]
            IN  /\ rq.pushes \in {0, 1}
                /\ rq.pushes = 1 <=> rq.pc = "done"
                /\ rq.pc \in {"append", "done"} =>
                       /\ validate_code(LastCode(rq)).valid
                       /\ call[r].pc = "returned"
                       /\ rq.execution = call[r].result
                /\ (rq.pc = "done" /\ store[rq.sid].exists) =>
                       Cardinality({i \in 1..Len(appended[rq.sid]) :
                                      appended[rq.sid][i].id = rq.interaction.id}) = 1
                /\ rq.pc # "done" =>
                       \A s \in SessionIds :
                           \A i \in 1..Len(appended[s]) :
                               appended[s][i].id # rq.interaction.id

\* one request appended the interaction of a timed-out execution, another
\* ended with 400 and appended none
C5_Witness ==
    \E r, q \in Reqs :
        /\ req[r].pc = "done"
        /\ req[r].pushes = 1
        /\ call[r].timedOut
        /\ store[req[r].sid].exists
        /\ req[q].pc = "failed"
        /\ req[q].response.status = 400
        /\ req[q].pushes = 0

\* C6 as written: only an unknown session ends an analyze request with a
\* failure status; every other request gets a response object.
C6_AlwaysAnalysisResponse ==
    \A r \in Reqs :
        req[r].pc = "failed" => req[r].response.status = 404

\* C6, amended: a request whose script passed validation and whose execution
\* returned is answered with a response object; when the execution failed or
\* timed out its error is the executor's error and its interpretation the
\* fallback sentence, otherwise it has no error.  An unknown session ends the
\* request with 404, two rejected scripts with 400, and a failed generation
\* call, an exception out of the executor or a failed history update with 500.
C6_ResponseOrFailure ==
    \A r \in Reqs :
        LET rq == req[r]
        IN  /\ rq.pc = "done" =>
                   /\ rq.response.kind = "analysis"
                   /\ validate_code(LastCode(rq)).valid
                   /\ call[r].pc = "returned"
                   /\ rq.execution = call[r].result
                   /\ rq.response.question = rq.question
                   /\ rq.response.generated_code = LastCode(rq)
                   /\ rq.response.conversation_id = rq.interaction.id
                   /\ rq.response.execution_time = rq.execution.execution_time
                   /\ IF rq.execution.success
                      THEN /\ rq.response.error = NoError
                           /\ rq.response.raw_result = rq.execution.output
                           /\ rq.response.interpretation # FallbackInterpretation
                      ELSE /\ rq.response.error = rq.execution.error
                           /\ rq.response.error # NoError
                           /\ rq.response.raw_result = NoOutput
                           /\ rq.response.interpretation = FallbackInterpretation
            /\ rq.pc = "failed" =>
                   /\ rq.response.kind = "failure"
                   /\ rq.response.status \in {404, 400, 500}
                   /\ rq.response.status = 404 <=> ~rq.session.exists
                   /\ rq.response.status = 400 <=>
                          /\ Len(rq.codes) = 2
                          /\ ~validate_code(rq.codes[2]).valid
                   /\ rq.response.status = 500 =>
                          \/ Len(rq.codes) < Len(rq.prompts)
                          \/ call[r].pc = "raised"
                          \/ rq.pc = "failed" /\ rq.interaction # NoInteraction

\* a request whose execution timed out was answered with a response object
\* carrying the timeout error and the fallback sentence
C6_Witness ==
    \E r \in Reqs :
        /\ req[r].pc = "done"
        /\ call[r].timedOut
        /\ req[r].response.kind = "analysis"
        /\ req[r].response.error.kind = "timeout"
        /\ req[r].response.interpretation = FallbackInterpretation

(***************************************************************************)
(* The session document                                                    *)
(***************************************************************************)
\* every field of a session document but its conversation_history
Frame(doc) == [doc EXCEPT !.conversation_history = <<>>]

\* C12: no step of an analyze request, get_session, list_sessions,
\* get_conversation_context, add_interaction or clear_conversation_history
\* changes a field of a stored session other than conversation_history, and
\* the dataset an analysis was given stays what the session stores whatever
\* the script does to the df of its namespace.
C12_OnlyHistoryChanges ==
    [][/\ \A s \in SessionIds :
              (store[s].exists /\ store'[s].exists) =>
                  Frame(store'[s]) = Frame(store[s])
       /\ \A r \in FirstReq :
              (call'[r].pc # "idle" /\ store'[req'[r].sid].exists) =>
                  /\ call'[r].df = store'[req'[r].sid].full_data
                  /\ req'[r].session.full_data = store'[req'[r].sid].full_data
      ]_vars

\* an analysis whose script changed its df in place was answered and
\* recorded, the session was read back, and the stored dataset is the
\* uploaded one
C12_Witness ==
    \E r \in FirstReq :
        /\ req[r].pc = "done"
        /\ call[r].namespace = Mutated(Csv1)
        /\ call[r].df = Csv1
        /\ ret.kind = "session"
        /\ ret.conversation_history # <<>>
        /\ Frame(store[req[r].sid]) = NewSession(Csv1, 0)

(***************************************************************************)
(* Uploads                                                                 *)
(***************************************************************************)
\* the step in which create_session answers its caller
IsUpload ==
    \/ <<arg, ret>>' # <<arg, ret>>
    \/ inflight' \subseteq inflight /\ inflight' # inflight

\* the conditions of C13 on an uploaded file
Acceptable(u) ==
    /\ EndsWithCsv(u)
    /\ u.size > 0
    /\ u.size <= MAX_UPLOAD_SIZE
    /\ u.parsed.kind = "table"
    /\ u.parsed.rows > 0 /\ u.parsed.cols > 0
    /\ u.parsed.rows * u.parsed.cols <= MAX_DATAFRAME_SIZE

\* C13: a create_session call changes the store only by adding one session,
\* and only for a file named *.csv, not empty, of at most MAX_UPLOAD_SIZE
\* bytes, whose table is not empty and has at most MAX_DATAFRAME_SIZE cells;
\* a file that breaks one of these is answered 400 (extension, empty file,
\* empty table) or 413 (bytes or cells over the cap), the first broken
\* condition in that order deciding, is never handed to insert_one and
\* leaves the store as it was.
C13_UploadChecks ==
    [][/\ \A x \in inflight' \ inflight : Acceptable(x.upload) /\ store' = store
       /\ IsUpload =>
          LET u == arg'.upload
              ok == Acceptable(u)
          IN  /\ store' # store =>
                     /\ ok
                     /\ ret'.status = 200
                     /\ \E s \in DOMAIN store :
                            /\ ~store[s].exists
                            /\ store'[s].exists
                            /\ store'[s].row_count = u.parsed.rows
                            /\ store'[s].column_count = u.parsed.cols
                            /\ \A t \in DOMAIN store \ {s} : store'[t] = store[t]
              /\ ret'.status # 200 => store' = store
              /\ ret'.status = 200 => store' # store
              /\ ~ok => ret'.status # 200
              /\ ~EndsWithCsv(u) => ret'.status = 400
              /\ (EndsWithCsv(u) /\ u.size > MAX_UPLOAD_SIZE) => ret'.status = 413
              /\ (EndsWithCsv(u) /\ u.size = 0) => ret'.status = 400
              /\ (EndsWithCsv(u) /\ u.size > 0 /\ u.size <= MAX_UPLOAD_SIZE
                  /\ u.parsed.kind = "table") =>
                     /\ DfEmpty(u.parsed) => ret'.status = 400
                     /\ (~DfEmpty(u.parsed)
                         /\ u.parsed.rows * u.parsed.cols > MAX_DATAFRAME_SIZE) =>
                            ret'.status = 413
      ]_vars

\* with a session stored, a file of exactly MAX_UPLOAD_SIZE bytes whose table
\* is one row over the cell cap was answered 413
C13_Witness ==
    /\ \E s \in DOMAIN store : store[s].exists
    /\ arg.op = "create_session"
    /\ arg.upload.size = MAX_UPLOAD_SIZE
    /\ arg.upload.parsed = Table(LargeSide + 1, LargeSide)
    /\ ret = HttpError(413)

(***************************************************************************)
(* The Query schema                                                        *)
(***************************************************************************)
\* C14: a question is accepted exactly when its stripped form has between
\* MIN_LENGTH and MAX_LENGTH characters, and the accepted Query carries the
\* stripped form; blank and over-long questions are rejected.
C14_StrippedLengthInRange ==
    arg.op = "Query" =>
        LET n == Strip(arg.question).body
        IN  /\ ret.kind = "query" <=> (MIN_LENGTH <= n /\ n <= MAX_LENGTH)
            /\ ret.kind = "query" => ret.question = Strip(arg.question)

(***************************************************************************)
(* list_sessions                                                           *)
(***************************************************************************)
\* the step in which list_sessions answers its caller
ListAnswered ==
    /\ arg'.op = "list_sessions"
    /\ ret' # ret
    /\ ret'.kind \notin {"cursor open", "cursor read"}

\* C15: whatever limit and skip the caller gives, list_sessions answers with
\* at most LIST_LIMIT summaries, newest first, and the number of stored
\* sessions.
C15_AtMostHundredNewestFirst ==
    [][ListAnswered =>
          /\ ret'.kind = "list"
          /\ Len(ret'.sessions) <= LIST_LIMIT
          /\ \A k \in 1..(Len(ret'.sessions) - 1) :
                 ret'.sessions[k].created_at >= ret'.sessions[k + 1].created_at
          /\ ret'.total = Cardinality(StoredIds(store'))
      ]_vars

(***************************************************************************)
(* DataFrame results                                                       *)
(***************************************************************************)
\* the calls that returned the formatted DataFrame their script produced
ReturnedFrame(c) ==
    /\ call[c].pc = "returned"
    /\ call[c].result.success
    /\ future[c].state = "done"
    /\ future[c].outcome.kind = "value"
    /\ future[c].outcome.value.kind = "dataframe"

\* C16: for a DataFrame of r rows the output's data is the first
\* min(r, MAX_SAMPLE_ROWS) rows in order, total_rows is r, truncated is true
\* exactly when r > MAX_SAMPLE_ROWS, and the ExecutionResult's truncated flag
\* is the output's.
C16_FirstRowsAndFlag ==
    \A c \in CallIds :
        ReturnedFrame(c) =>
            LET rows == future[c].outcome.value.rows
                r == Len(rows)
                out == call[c].result.output
            IN  /\ out.type = "dataframe"
                /\ out.data = [k \in 1..Min(r, MAX_SAMPLE_ROWS) |-> rows[k]]
                /\ out.total_rows = r
                /\ out.truncated <=> r > MAX_SAMPLE_ROWS
                /\ call[c].result.truncated = out.truncated

\* one call returned a frame of MAX_SAMPLE_ROWS + 1 rows cut to
\* MAX_SAMPLE_ROWS, another a frame of exactly MAX_SAMPLE_ROWS rows whole
C16_Witness ==
    \E c, d \in CallIds :
        /\ ReturnedFrame(c) /\ ReturnedFrame(d)
        /\ call[c].result.output.total_rows = MAX_SAMPLE_ROWS + 1
        /\ Len(call[c].result.output.data) = MAX_SAMPLE_ROWS
        /\ call[c].result.truncated
        /\ call[d].result.output.total_rows = MAX_SAMPLE_ROWS
        /\ ~call[d].result.truncated

(***************************************************************************)
(* Standard output of concurrent scripts                                   *)
(***************************************************************************)
\* no run_code is in a worker or waiting for one
RunsFinished == running = {} /\ queue = <<>>

\* C17: whatever a script prints goes into the output buffer of its own call
\* and nowhere else: a call's buffer holds only what its own script printed,
\* a fallback result is made of the call's own output, the process's real
\* stream receives nothing; and when no script is running any more,
\* sys.stdout and sys.stderr are the process's own streams again.
C17_OutputStaysInOwnBuffer ==
    /\ realOut = <<>>
    /\ \A c \in CallIds :
           /\ \A k \in 1..Len(run[c].output) : run[c].output[k] = c
           /\ Len(run[c].output) = run[c].prints
           /\ (call[c].pc = "returned" /\ call[c].result.success
               /\ call[c].result.output.kind = "text") =>
                  \A k \in 1..Len(call[c].result.output.content) :
                      call[c].result.output.content[k] = c
    /\ RunsFinished => sys = [stdout |-> RealStdout, stderr |-> RealStderr]

(***************************************************************************)
(* The validation in front of the worker pool                              *)
(***************************************************************************)
InQueue(c) == \E k \in 1..Len(queue) : queue[k] = c

\* C18: a call of execute_code_safely with a script that validate_code
\* rejects has returned success = false, no output, the validation message,
\* execution_time 0 and truncated = false, and its script was never handed
\* to the pool; and a call made by analyze_data never has such a script, so
\* it never returns this result.
C18_RejectedNeverRuns ==
    /\ \A c \in NewCalls :
           (call[c].pc # "idle" /\ ~validate_code(call[c].script).valid) =>
               /\ call[c].pc = "returned"
               /\ call[c].result.success = FALSE
               /\ call[c].result.output = NoOutput
               /\ call[c].result.error =
                      [kind |-> "validation",
                       message |-> validate_code(call[c].script).message]
               /\ call[c].result.execution_time = Fixed(0)
               /\ call[c].result.truncated = FALSE
               /\ future[c] = NoFuture
               /\ c \notin running
               /\ ~InQueue(c)
    /\ \A r \in FirstReq :
           call[r].pc # "idle" =>
               /\ validate_code(call[r].script).valid
               /\ call[r].pc = "returned" => call[r].result.error.kind # "validation"

\* a direct call with the import script returned the short-circuit result,
\* and the analyze request, whose first script was rejected, executed its
\* second one
C18_Witness ==
    /\ \E c \in DirectCalls :
           /\ call[c].pc = "returned"
           /\ call[c].script = ImportScript
           /\ call[c].result.error.kind = "validation"
    /\ \E r \in FirstReq :
           /\ call[r].pc = "returned"
           /\ call[r].result.success
           /\ req[r].codes = <<NoResultScript, ValidScript>>

(***************************************************************************)
(* The order of the steps of one analyze request                           *)
(***************************************************************************)
\* the steps a request can go to from each of its positions
StepsAfter(pc) ==
    CASE pc = "new" -> {"context", "failed"}
      [] pc = "context" -> {"generate"}
      [] pc = "generate" -> {"regenerate", "exec", "failed"}
      [] pc = "regenerate" -> {"exec", "failed"}
      [] pc = "exec" -> {"interpret", "append", "failed"}
      [] pc = "interpret" -> {"append"}
      [] pc = "append" -> {"done", "failed"}
      [] OTHER -> {}

AfterExecutionSteps == {"interpret", "append", "done"}

\* every change of a request is a step to one of the next positions
InStepOrder ==
    \A r \in FirstReq : req'[r] # req[r] => req'[r].pc \in StepsAfter(req[r].pc)

\* C19 as stated: the steps of a request happen in their order, and
\* interpretation, history append and response never begin or go on while
\* the request's script is in a worker, also after a timeout.
C19_NoStepWhileScriptRuns ==
    [][/\ InStepOrder
       /\ \A r \in FirstReq :
              req'[r].pc \in AfterExecutionSteps => r \notin running'
      ]_vars

\* C19, amended: the steps of a request happen in their order, and
\* interpretation, history append and response come only after
\* execute_code_safely has returned; the request's script is then neither
\* queued nor in a worker, unless the execution ended by timeout: then the
\* script may still be in its worker during these steps.
C19_StepsInOrderScriptRunsOnlyAfterTimeout ==
    [][/\ InStepOrder
       /\ \A r \in FirstReq :
              req'[r].pc \in AfterExecutionSteps =>
                  /\ call'[r].pc = "returned"
                  /\ ~\E k \in 1..Len(queue') : queue'[k] = r
                  /\ r \in running' => call'[r].timedOut
      ]_vars

\* the request is answered while its timed-out script is still in a worker
C19_Witness ==
    \E r \in FirstReq :
        /\ req[r].pc = "done"
        /\ call[r].timedOut
        /\ r \in running

(***************************************************************************)
(* The two pool workers                                                    *)
(***************************************************************************)
\* C20: at most MAX_WORKERS scripts are executing, the scripts of calls that
\* returned a timeout included; a call's return, by timeout or otherwise,
\* takes no script out of its worker; while MAX_WORKERS scripts are running
\* no other script starts; a later call whose script never got a worker
\* leaves its wait as a timeout failure, and every later call does leave its
\* wait.
C20_TwoWorkersHeldAfterTimeout ==
    /\ [](Cardinality(running) <= MAX_WORKERS)
    /\ [][/\ call' # call => running' = running
          /\ Cardinality(running) = MAX_WORKERS => running' \subseteq running
          /\ \A c \in NewCalls :
                 (/\ call[c].pc = "waiting" /\ call'[c].pc # "waiting"
                  /\ \E k \in 1..Len(queue) : queue[k] = c) =>
                     /\ call'[c].pc = "returned"
                     /\ call'[c].timedOut
                     /\ call'[c].result.success = FALSE
                     /\ call'[c].result.error.kind = "timeout"
                     /\ c \notin running'
         ]_vars
    /\ \A c \in NewCalls : (call[c].pc = "waiting") ~> (call[c].pc # "waiting")

\* both workers are held by scripts of calls that returned a timeout, and
\* a later call, whose script never started, has returned a timeout too
C20_Witness ==
    /\ running = EarlierCalls
    /\ \A c \in EarlierCalls : call[c].pc = "returned" /\ call[c].timedOut
    /\ \E c \in NewCalls :
           /\ call[c].pc = "returned"
           /\ call[c].timedOut
           /\ call[c].result.error.kind = "timeout"
           /\ call[c].timeout > 0

(***************************************************************************)
(* The Session schema                                                      *)
(***************************************************************************)
\* C21: a Session is rejected with a validation error exactly when
\* row_count * column_count is greater than MAX_DATAFRAME_SIZE, in whatever
\* order the two counts are supplied.
C21_OversizedSessionRejected ==
    arg.op = "Session" =>
        (ret = ValidationError <=>
            arg.row_count * arg.column_count > MAX_DATAFRAME_SIZE)

(***************************************************************************)
(* Result summaries                                                        *)
(***************************************************************************)
\* C22: an absent result is summarised as "No result", a number as
\* "Numeric value: V" and a boolean as "Boolean value: V", never in the
\* numeric form.
C22_OwnFormPerKind ==
    arg.op = "_summarize_result" =>
        /\ KindOf(arg.result) = "none" => ret.text.form = "No result"
        /\ KindOf(arg.result) \in {"int", "float"} =>
               ret.text = Summary("Numeric value: ", arg.result)
        /\ KindOf(arg.result) = "bool" =>
               ret.text = Summary("Boolean value: ", arg.result)

(***************************************************************************)
(* Error messages of failed scripts                                        *)
(***************************************************************************)
\* the friendlier message of each recognised kind of failure
CategoryPrefix(etype) ==
    CASE etype = "NameError" -> "Variable or function not found: "
      [] etype = "KeyError" -> "Column not found in DataFrame: "
      [] etype = "TypeError" -> "Type error in operation: "
      [] etype = "ValueError" -> "Invalid value or operation: "
      [] etype = "AttributeError" -> "Attribute error: "
      [] OTHER -> ""

\* C23: the error of a call whose script raised is the failure's text behind
\* "Execution error: ", with the friendlier message of the failure's kind in
\* front for the five recognised kinds and nothing in front for any other
\* kind.
C23_PrefixByKindOfFailure ==
    \A c \in NewCalls :
        (/\ call[c].pc = "returned"
         /\ future[c].state = "done"
         /\ future[c].outcome.kind = "exception") =>
            call[c].result.error =
                [kind |-> "execution",
                 prefix |-> CategoryPrefix(future[c].outcome.exc.etype),
                 wrapped |-> TRUE, exc |-> future[c].outcome.exc]

(***************************************************************************)
(* The id analyze_data reports                                             *)
(***************************************************************************)
\* the ids of the interactions stored in session sid of st
HistoryIds(st, sid) ==
    IF st[sid].exists
    THEN {st[sid].conversation_history[i].id :
              i \in 1..Len(st[sid].conversation_history)}
    ELSE {}

\* the step in which request r applies its update_one and returns
AppendCompletes(r) == req[r].pc = "append" /\ req'[r].pc = "done"

\* C24: when the append step of an analyze request completes with a response
\* object, the conversation_id of the response is the id of an interaction
\* stored in the history of that session, also when delete_session ran while
\* the request was in flight; and no step of an analyze request makes a
\* deleted session exist again.
C24_ReportedIdIsStored ==
    [][/\ \A r \in Reqs :
              AppendCompletes(r) =>
                  /\ req'[r].response.kind = "analysis"
                  /\ req'[r].response.conversation_id
                         \in HistoryIds(store', req[r].sid)
       /\ \A s \in SessionIds : (~store[s].exists) => ~store'[s].exists]_vars

(***************************************************************************)
(* Well-formed results                                                     *)
(***************************************************************************)
\* a piece of text as a sequence of non-empty parts
Parts(text) == IF text = "" THEN <<>> ELSE <<text>>

\* str(e): empty for an exception made without arguments
StrOf(exc) == IF "args" \in DOMAIN exc /\ exc.args = <<>> THEN <<>> ELSE <<exc>>

\* the text of the error field of an ExecutionResult
ErrorMessage(error) ==
    CASE error.kind = "validation" ->
           <<"Code validation failed: ", error.message>>
      [] error.kind = "timeout" ->
           <<"Code execution timed out after ", error.seconds,
             " seconds. The operation may be too complex.">>
      [] error.kind = "execution" ->
           Parts(error.prefix)
           \o Parts(IF error.wrapped THEN "Execution error: " ELSE "")
           \o StrOf(error.exc)
      [] OTHER -> <<>>

\* the halves of C25 about the result of execute_code_safely
WellFormed(res) ==
    /\ res.success => res.error = NoError
    /\ ~res.success =>
           /\ res.output = NoOutput
           /\ res.error # NoError
           /\ ErrorMessage(res.error) # <<>>
           /\ ~res.truncated

\* C25: every result execute_code_safely returns is well formed (a success
\* has no error; a failure has no output, a non-empty error message and is
\* not truncated); the response built from it has an error exactly when the
\* execution failed and then no raw_result, and the interaction stored for a
\* failed execution has no result and the error text of the response.
C25_WellFormedResults ==
    /\ \A c \in NewCalls : call[c].pc = "returned" => WellFormed(call[c].result)
    /\ \A r \in Reqs :
           req[r].pc = "done" =>
               LET rq == req[r]
                   failed == ~rq.execution.success
               IN  /\ rq.response.error # NoError <=> failed
                   /\ failed => rq.response.raw_result = NoOutput
                   /\ failed =>
                          /\ rq.interaction.full_result = NoOutput
                          /\ rq.interaction.error = rq.response.error
                          /\ \E i \in 1..Len(store[rq.sid].conversation_history) :
                                 store[rq.sid].conversation_history[i] = rq.interaction

====
